---- MODULE Spec2Model ----
(***************************************************************************)
(* Model of the ASR-GoT reasoning core: the graph store (ASRGoTGraph,      *)
(* src/src/core/graph.ts) and the 8-stage pipeline (ASRGoTPipeline, whose  *)
(* source is carried in src/src/stages/__tests__/pipeline.test.ts from     *)
(* line 1146 on).                                                          *)
(*                                                                         *)
(* Numbers in [0,1] are held in thousandths (0.8 is 800).                  *)
(* Ids: uuidv4() is a counter (1, 2, ...): every call yields an id never   *)
(* seen before.  Ids supplied by a caller of the store are negative.       *)
(* 0 stands for a missing id / a null return value.                        *)
(* The JS Maps of the store keep insertion order, which the code observes  *)
(* (iteration, slice, rootNodes[0]); they are sequences of entries here.   *)
(***************************************************************************)
EXTENDS Integers, Sequences, FiniteSets, TLC

VARIABLES
  graph,           \* this.graph of the pipeline (the store a host drives)
  lastOp,          \* the last store operation a host issued, and its result
  snapshot,        \* what a host holds from a getState() call
  failSafeActive,  \* this.failSafeActive
  ctx,             \* the context of the run in progress (or last returned)
  pc,              \* where executeComplete / executeStage stands
  attempt,         \* executeStage: attempt
  maxRetries,      \* executeStage: maxRetries
  result,          \* executeStage: result
  retrying,        \* executeComplete: inside the fail-safe retry of a stage
  runs,            \* executeComplete calls made so far
  input,           \* arguments of the run in progress
  draw,            \* what Math.random and the bias annotator yield in it
  build            \* how the build resolves stage 3's undeclared name

pipeVars ==
  <<failSafeActive, ctx, pc, attempt, maxRetries, result, retrying, runs,
    input, draw, build>>

vars == <<graph, lastOp, snapshot, pipeVars>>

\* ------------------------------------------------------------------ bounds
MaxUserIds == 2
MaxOps == 4

\* ------------------------------------------------------- program constants
NoId == 0
\* a type tag that is missing (undefined)
NoType == "undefined"
MergeOverlapMin == 800
IBNSimilarityMin == 500
DefaultImpact == 500
\* dates are days counted from the day of the run: new Date() and Date.now()
DateNow == 0
DefaultConfidence == <<500, 500, 500, 500>>
\* a node without a statistical-power record: every factor of
\* adjustForStatisticalPower is skipped for it, as for an absent record
NoPower == [power |-> 0, sample_size |-> 0, effect_size |-> 0]

\* ----------------------------------------------------------------- helpers
Range(s) == {s[i] : i \in 1..Len(s)}

\* s without the entries whose id is in ids (Map.delete keeps the others' order)
SelectSeq2(s, ids) == SelectSeq(s, LAMBDA e : e.id \notin ids)

Max2(a, b) == IF a >= b THEN a ELSE b
Min2(a, b) == IF a <= b THEN a ELSE b

\* ------------------------------------------------------------------- store
\* node_types, confidence_function and metadata_function are held by their
\* key sets
EmptyGraph ==
  [vertices |-> <<>>, edges |-> <<>>, layers |-> <<>>, uuid |-> 0,
   node_types |-> {}, confidence_function |-> {}, metadata_function |-> {}]

\* the three Map.set calls of addNode
IndexSet(w, id) ==
  [w EXCEPT !.node_types = @ \cup {id},
            !.confidence_function = @ \cup {id},
            !.metadata_function = @ \cup {id}]

\* the Map.delete calls of removeNode on the secondary maps
IndexDelete(w, id) ==
  [w EXCEPT !.node_types = @ \ {id},
            !.confidence_function = @ \ {id},
            !.metadata_function = @ \ {id}]

NodeIds(w) == {w.vertices[i].id : i \in 1..Len(w.vertices)}
EdgeIds(w) == {w.edges[i].id : i \in 1..Len(w.edges)}
hasNode(w, id) == id \in NodeIds(w)
hasEdge(w, id) == id \in EdgeIds(w)
getNode(w, id) == CHOOSE n \in Range(w.vertices) : n.id = id
getNodeCount(w) == Len(w.vertices)
getEdgeCount(w) == Len(w.edges)

\* the Map objects the constructor puts in this.state; the store never
\* replaces them, every operation changes them in place
StoreFields == {"vertices", "edges", "layers"}

\* getState: { ...this.state }, a new object whose fields hold the very Map
\* objects of the store
getState == [f \in StoreFields |-> [owner |-> "store", field |-> f]]

\* the entries a holder of the Map object m finds in it, the store being w
Entries(m, w) == w[m.field]

\* no getState() call made yet
NoSnapshot == [taken |-> FALSE, state |-> getState, seen |-> <<>>]

\* uuidv4(): the next unused id, and the generator advanced
uuidv4(w) == w.uuid + 1
Tick(w) == [w EXCEPT !.uuid = @ + 1]

getAverageConfidence4(c) == c[1] + c[2] + c[3] + c[4]   \* four times the mean

averageConfidence(c1, c2) ==
  [i \in 1..4 |-> (c1[i] + c2[i]) \div 2]

LayerIndex(w, label) ==
  CHOOSE i \in 1..Len(w.layers) : w.layers[i].label = label
LayerLabels(w) == {w.layers[i].label : i \in 1..Len(w.layers)}

\* this.state.layers: push the id under the label, creating the label's list
LayerPush(layers, label, id) ==
  IF \E i \in 1..Len(layers) : layers[i].label = label
  THEN [i \in 1..Len(layers) |->
          IF layers[i].label = label
          THEN [layers[i] EXCEPT !.ids = Append(@, id)]
          ELSE layers[i]]
  ELSE Append(layers, [label |-> label, ids |-> <<id>>])

\* indexOf + splice(index, 1): the first occurrence only
RemoveFirst(s, x) ==
  IF \E i \in 1..Len(s) : s[i] = x
  THEN LET k == CHOOSE i \in 1..Len(s) : s[i] = x /\ \A j \in 1..(i - 1) : s[j] # x
       IN SubSeq(s, 1, k - 1) \o SubSeq(s, k + 1, Len(s))
  ELSE s

Has(md, f) == f \in md.present

\* addNode without its check for a duplicate id: vertices.set replaces the
\* entry stored under the id
addNodeOverwrite(w, md) ==
  IF md.node_id = NoId
  THEN [ok |-> FALSE, id |-> NoId, w |-> w]
  ELSE
    LET node == [id |-> md.node_id,
                 type |-> md.type,
                 confidence |-> IF Has(md, "confidence") THEN md.confidence
                                ELSE DefaultConfidence,
                 tags |-> IF Has(md, "disciplinary_tags") THEN md.tags
                          ELSE {"general"},
                 bias_flags |-> IF Has(md, "bias_flags") THEN md.bias_flags ELSE {},
                 history |-> IF Has(md, "revision_history") THEN md.history
                             ELSE <<"Node created">>,
                 history_at |-> IF Has(md, "revision_history") THEN md.history_at
                               ELSE <<DateNow>>,
                 impact |-> IF Has(md, "impact_score") /\ md.impact # 0
                            THEN md.impact ELSE DefaultImpact,
                 layer |-> IF Has(md, "layer_id") THEN md.layer ELSE "",
                 timestamp |-> md.timestamp,
                 power |-> md.power]
    IN [ok |-> TRUE, id |-> md.node_id,
        w |-> IndexSet([w EXCEPT !.vertices =
                          IF md.node_id \in NodeIds(w)
                          THEN [i \in 1..Len(@) |->
                                  IF @[i].id = md.node_id THEN node ELSE @[i]]
                          ELSE Append(@, node)],
                       md.node_id)]

\* addNode: [ok, id, w]; ok = FALSE is the thrown "Node creation failed"
addNode(w, md) ==
  IF md.node_id = NoId
  THEN [ok |-> FALSE, id |-> NoId, w |-> w]
  ELSE
    LET collide == hasNode(w, md.node_id)
        id == IF collide THEN uuidv4(w) ELSE md.node_id
        w1 == IF collide THEN Tick(w) ELSE w
        node == [id |-> id,
                 type |-> md.type,
                 confidence |-> IF Has(md, "confidence") THEN md.confidence
                                ELSE DefaultConfidence,
                 tags |-> IF Has(md, "disciplinary_tags") THEN md.tags
                          ELSE {"general"},
                 bias_flags |-> IF Has(md, "bias_flags") THEN md.bias_flags ELSE {},
                 history |-> IF Has(md, "revision_history") THEN md.history
                             ELSE <<"Node created">>,
                 history_at |-> IF Has(md, "revision_history") THEN md.history_at
                               ELSE <<DateNow>>,
                 impact |-> IF Has(md, "impact_score") /\ md.impact # 0
                            THEN md.impact ELSE DefaultImpact,
                 layer |-> IF Has(md, "layer_id") THEN md.layer ELSE "",
                 timestamp |-> md.timestamp,
                 power |-> md.power]
        lay == IF Has(md, "layer_id") /\ md.layer # ""
               THEN LayerPush(w1.layers, md.layer, id) ELSE w1.layers
    IN [ok |-> TRUE, id |-> id,
        w |-> IndexSet([w1 EXCEPT !.vertices = Append(@, node), !.layers = lay],
                       id)]

\* addEdge without its two checks that the endpoints exist
addEdgeUnchecked(w, sourceId, targetId, md) ==
  IF sourceId = NoId \/ targetId = NoId \/ md.edge_id = NoId
  THEN [ok |-> FALSE, id |-> NoId, w |-> w]
  ELSE
    LET collide == hasEdge(w, md.edge_id)
        id == IF collide THEN uuidv4(w) ELSE md.edge_id
        w1 == IF collide THEN Tick(w) ELSE w
        edge == [id |-> id, source |-> sourceId, target |-> targetId,
                 type |-> md.edge_type]
    IN [ok |-> TRUE, id |-> id, w |-> [w1 EXCEPT !.edges = Append(@, edge)]]

\* addEdge: [ok, id, w]; ok = FALSE is the thrown "Edge creation failed"
addEdge(w, sourceId, targetId, md) ==
  IF sourceId = NoId \/ targetId = NoId \/ md.edge_id = NoId
  THEN [ok |-> FALSE, id |-> NoId, w |-> w]
  ELSE IF ~hasNode(w, sourceId) \/ ~hasNode(w, targetId)
  THEN [ok |-> FALSE, id |-> NoId, w |-> w]
  ELSE
    LET collide == hasEdge(w, md.edge_id)
        id == IF collide THEN uuidv4(w) ELSE md.edge_id
        w1 == IF collide THEN Tick(w) ELSE w
        edge == [id |-> id, source |-> sourceId, target |-> targetId,
                 type |-> md.edge_type]
    IN [ok |-> TRUE, id |-> id, w |-> [w1 EXCEPT !.edges = Append(@, edge)]]

\* removeNode without its pass over the edges
RemoveNodeKeepEdges(w, nodeId) ==
  [IndexDelete(w, nodeId) EXCEPT
     !.vertices = SelectSeq2(@, {nodeId}),
     !.layers = [i \in 1..Len(@) |-> [@[i] EXCEPT !.ids = RemoveFirst(@, nodeId)]]]

\* removeNode deleting from the node map and the edges only
removeNodeKeepIndexes(w, nodeId) ==
  [w EXCEPT
     !.vertices = SelectSeq2(@, {nodeId}),
     !.edges = SelectSeq(@, LAMBDA e : e.source # nodeId /\ e.target # nodeId)]

\* removeNode deleting nothing
removeNothing(w, nodeId) == w

\* removeNode: the node, its layer entries and every edge touching it
removeNode(w, nodeId) ==
  [IndexDelete(w, nodeId) EXCEPT
     !.vertices = SelectSeq2(@, {nodeId}),
     !.layers = [i \in 1..Len(@) |-> [@[i] EXCEPT !.ids = RemoveFirst(@, nodeId)]],
     !.edges = SelectSeq(@, LAMBDA e : e.source # nodeId /\ e.target # nodeId)]

\* transferEdges: source is rewritten, else (and only else) target
transferEdges(w, fromId, toId) ==
  [w EXCEPT !.edges =
     [i \in 1..Len(@) |->
        IF @[i].source = fromId THEN [@[i] EXCEPT !.source = toId]
        ELSE IF @[i].target = fromId THEN [@[i] EXCEPT !.target = toId]
        ELSE @[i]]]

\* the smallest member of a non-empty set of integers
MinOf(S) == CHOOSE x \in S : \A y \in S : x <= y

\* the test of pruneNodes with || in place of &&
BelowEitherThreshold(node, ct, it) ==
  \/ getAverageConfidence4(node.confidence) < 4 * ct
  \/ node.impact < it

\* the test pruneNodes applies to an entry
BelowThresholds(node, ct, it) ==
  /\ getAverageConfidence4(node.confidence) < 4 * ct
  /\ node.impact < it

RECURSIVE PruneFrom(_, _)
\* the loop of pruneNodes, over the entries that pass its test (the others
\* are visited and left alone), in iteration order
PruneFrom(w, ids) ==
  IF ids = <<>> THEN w
  ELSE PruneFrom(IF hasNode(w, Head(ids)) THEN removeNode(w, Head(ids)) ELSE w,
                 Tail(ids))

\* pruneNodes(confidenceThreshold, impactThreshold): [w, pruned]
pruneNodes(w, ct, it) ==
  LET hits == SelectSeq(w.vertices, LAMBDA n : BelowThresholds(n, ct, it))
      prunedNodes == [i \in 1..Len(hits) |-> hits[i].id]
  IN [w |-> PruneFrom(w, prunedNodes), pruned |-> prunedNodes]

\* mergeNodes: [id, w]; id = NoId is the null return
mergeNodes(w, nodeId1, nodeId2, semanticOverlap) ==
  IF semanticOverlap < MergeOverlapMin THEN [id |-> NoId, w |-> w]
  ELSE IF ~hasNode(w, nodeId1) \/ ~hasNode(w, nodeId2) THEN [id |-> NoId, w |-> w]
  ELSE
    LET node1 == getNode(w, nodeId1)
        node2 == getNode(w, nodeId2)
        md == [node_id |-> uuidv4(w),
               type |-> node1.type,
               confidence |-> averageConfidence(node1.confidence, node2.confidence),
               tags |-> node1.tags \cup node2.tags,
               bias_flags |-> node1.bias_flags \cup node2.bias_flags,
               history |-> node1.history \o node2.history
                             \o <<"Node created by merging">>,
               history_at |-> node1.history_at \o node2.history_at
                                \o <<DateNow>>,
               impact |-> Max2(node1.impact, node2.impact),
               layer |-> "", timestamp |-> DateNow, power |-> NoPower,
               present |-> {"confidence", "disciplinary_tags", "bias_flags",
                            "revision_history", "impact_score"}]
        Merged(a) ==
          [id |-> a.id,
           w |-> removeNode(
                   removeNode(
                     transferEdges(transferEdges(a.w, nodeId1, a.id), nodeId2, a.id),
                     nodeId1),
                   nodeId2)]
    IN Merged(addNode(Tick(w), md))

\* the refusal of createIBN with a bar only a similarity of 1 clears
notInterdisciplinaryBelowOne(sourceTags, targetTags, semantic_similarity) ==
  sourceTags \cap targetTags # {} \/ semantic_similarity < 1000

\* the refusal of createIBN: a shared tag, or a similarity of 0.5 or less
notInterdisciplinary(sourceTags, targetTags, semantic_similarity) ==
  sourceTags \cap targetTags # {} \/ semantic_similarity <= IBNSimilarityMin

\* createIBN: [id, w]; id = NoId is the null return
createIBN(w, sourceNodeId, targetNodeId, semantic_similarity) ==
  IF ~hasNode(w, sourceNodeId) \/ ~hasNode(w, targetNodeId)
  THEN [id |-> NoId, w |-> w]
  ELSE
    LET sourceNode == getNode(w, sourceNodeId)
        targetNode == getNode(w, targetNodeId)
    IN IF notInterdisciplinary(sourceNode.tags, targetNode.tags,
                               semantic_similarity)
       THEN [id |-> NoId, w |-> w]
       ELSE
         LET md == [node_id |-> uuidv4(w),
                    type |-> "interdisciplinary_bridge_node",
                    confidence |-> averageConfidence(sourceNode.confidence,
                                                     targetNode.confidence),
                    tags |-> sourceNode.tags \cup targetNode.tags,
                    bias_flags |-> {},
                    history |-> <<"IBN created automatically">>, history_at |-> <<DateNow>>,
                    impact |-> Max2(sourceNode.impact, targetNode.impact),
                    layer |-> "", timestamp |-> DateNow, power |-> NoPower,
                    present |-> {"confidence", "disciplinary_tags", "bias_flags",
                                 "revision_history", "impact_score"}]
             Linked(a, e1) ==
               [id |-> a.id,
                w |-> addEdge(Tick(e1.w), a.id, targetNodeId,
                              [edge_id |-> uuidv4(e1.w), edge_type |-> "other"]).w]
             Bridged(a) ==
               Linked(a, addEdge(Tick(a.w), sourceNodeId, a.id,
                                 [edge_id |-> uuidv4(a.w), edge_type |-> "other"]))
         IN Bridged(addNode(Tick(w), md))

\* ---------------------------------------------------- BayesianUpdater
Clamp01(x) == Max2(0, Min2(1000, x))

\* updateDimension: Beta pseudo-counts, prior weight 10 (+1 each side),
\* evidence weight 10 scaled by likelihood * reliability; in thousandths
\* posterior = (10 p + 1 + 10 l r) / 22
updateDimension(prior, likelihood, reliability) ==
  Clamp01((10000 * prior + 1000000 + 10 * likelihood * reliability) \div 22000)

\* min(1, ln(n) / ln(1000)) in thousandths, tabulated at the powers of ten
\* and linear between them (exact at 1, 10, 100, 1000)
LogRatio1000(n) ==
  IF n >= 1000 THEN 1000
  ELSE IF n >= 100 THEN 667 + ((n - 100) * 333) \div 900
  ELSE IF n >= 10 THEN 333 + ((n - 10) * 334) \div 90
  ELSE IF n >= 1 THEN ((n - 1) * 333) \div 9
  ELSE 0

Abs(x) == IF x < 0 THEN -x ELSE x

\* adjustForStatisticalPower: a falsy (0) field leaves its factor out
adjustForStatisticalPower(c, pw) ==
  LET a1 == IF pw.power # 0 THEN 500 + pw.power \div 2 ELSE 1000
      a2 == IF pw.sample_size # 0
            THEN 700 + (Min2(1000, LogRatio1000(pw.sample_size)) * 3) \div 10
            ELSE 1000
      a3 == IF pw.effect_size # 0
            THEN 800 + (Min2(1000, Abs(pw.effect_size)) * 2) \div 10
            ELSE 1000
      adjustment == (a1 * a2 * a3) \div 1000000
  IN [c EXCEPT ![1] = Clamp01((c[1] * adjustment) \div 1000)]

\* updateConfidence(prior, likelihood, evidence): evidence.reliability || 0.5
updateConfidence(prior, likelihood, evidence) ==
  LET rel == IF evidence.reliability # 0 THEN evidence.reliability ELSE 500
      posterior == [i \in 1..4 |-> updateDimension(prior[i], likelihood[i], rel)]
  IN adjustForStatisticalPower(posterior, evidence.statistical_power)

\* propagateUncertainty: every dimension times max(0.1, edgeReliability)
propagateUncertainty(sourceConfidence, edgeReliability) ==
  LET propagationFactor == Max2(100, edgeReliability)
  IN [i \in 1..4 |-> (sourceConfidence[i] * propagationFactor) \div 1000]

ReplaceNode(w, node) ==
  [w EXCEPT !.vertices =
     [i \in 1..Len(@) |-> IF @[i].id = node.id THEN node ELSE @[i]]]

\* updateNodeConfidence answering true for an id it does not find
updateNodeConfidenceUnchecked(w, nodeId, newConfidence, evidence) ==
  IF ~hasNode(w, nodeId) THEN [ok |-> TRUE, w |-> w]
  ELSE
    LET node == getNode(w, nodeId)
        upd == [node EXCEPT
                  !.confidence = updateConfidence(@, newConfidence, evidence),
                  !.history = Append(@, "Confidence updated via Bayesian inference"),
                  !.history_at = Append(@, DateNow)]
    IN [ok |-> TRUE,
        w |-> [ReplaceNode(w, upd) EXCEPT !.confidence_function = @ \cup {nodeId}]]

\* updateNodeConfidence: [ok, w]; ok = FALSE is the false return
updateNodeConfidence(w, nodeId, newConfidence, evidence) ==
  IF ~hasNode(w, nodeId) THEN [ok |-> FALSE, w |-> w]
  ELSE
    LET node == getNode(w, nodeId)
        upd == [node EXCEPT
                  !.confidence = updateConfidence(@, newConfidence, evidence),
                  !.history = Append(@, "Confidence updated via Bayesian inference"),
                  !.history_at = Append(@, DateNow)]
    IN [ok |-> TRUE,
        w |-> [ReplaceNode(w, upd) EXCEPT !.confidence_function = @ \cup {nodeId}]]

\* ------------------------------------------------------------ pipeline
NumStages == 8
MaxRetriesNormal == 3
MaxRetriesFailSafe == 1
BudgetMaxNodes == 1000
BudgetMaxEdges == 5000
BudgetMaxTimeMs == 300000

StageNames ==
  <<"Initialization", "Decomposition", "Hypothesis/Planning",
    "Evidence Integration", "Pruning/Merging", "Subgraph Extraction",
    "Composition", "Reflection">>

Dimensions ==
  <<"Scope", "Objectives", "Constraints", "Data Needs", "Use Cases",
    "Potential Biases", "Knowledge Gaps">>

AllPresent ==
  {"confidence", "disciplinary_tags", "bias_flags", "revision_history",
   "impact_score"}

Flat(x) == <<x, x, x, x>>

\* the StageResult executeStage starts from
NewResult(stage) ==
  [stage |-> stage, stage_name |-> StageNames[stage], success |-> FALSE,
   nodes_created |-> <<>>, edges_created |-> <<>>, errors |-> <<>>,
   warnings |-> <<>>, execution_time_ms |-> 0]

PushNode(res, id) == [res EXCEPT !.nodes_created = Append(@, id)]
PushNodes(res, ids) == [res EXCEPT !.nodes_created = @ \o ids]
PushEdge(res, id) == [res EXCEPT !.edges_created = Append(@, id)]
Warn(res, m) == [res EXCEPT !.warnings = Append(@, m)]

\* what a stage's logic leaves behind: ok = FALSE is a throw with message msg
Out(ok, w, res, c, msg) == [ok |-> ok, w |-> w, res |-> res, c |-> c, msg |-> msg]

\* query.domain || ['general']  (an empty array is truthy and is kept)
QueryTags(q) == IF q.hasDomain THEN q.domain ELSE {"general"}

TypeErrorUndefined == <<"Cannot", "read", "properties", "of", "undefined">>

\* createBasicRootNode: [id, w]
createBasicRootNode(w) ==
  LET Made(a) == [id |-> a.id, w |-> a.w]
  IN Made(addNode(Tick(w),
            [node_id |-> uuidv4(w), type |-> "root", confidence |-> Flat(500),
             tags |-> {"general"}, bias_flags |-> {},
             history |-> <<"Fail-safe root created">>, history_at |-> <<DateNow>>, impact |-> 300,
             layer |-> "", timestamp |-> DateNow, power |-> NoPower, present |-> AllPresent]))

RECURSIVE BasicDimLoop(_, _)
BasicDimLoop(w, dims) ==
  IF dims = <<>> THEN [ids |-> <<>>, w |-> w]
  ELSE
    LET Then(a, rest) == [ids |-> <<a.id>> \o rest.ids, w |-> rest.w]
        Made(a) == Then(a, BasicDimLoop(a.w, Tail(dims)))
    IN Made(addNode(Tick(w),
              [node_id |-> uuidv4(w), type |-> "dimension",
               confidence |-> Flat(400), tags |-> {"general"}, bias_flags |-> {},
               history |-> <<"Fail-safe dimension created">>, history_at |-> <<DateNow>>, impact |-> 200,
               layer |-> "", timestamp |-> DateNow, power |-> NoPower, present |-> AllPresent]))

\* createBasicDimensions: [ids, w]
createBasicDimensions(w) == BasicDimLoop(w, <<"Scope", "Objectives">>)

\* createBasicHypotheses: [ids, w]
createBasicHypotheses(w) ==
  LET Made(a) == [ids |-> <<a.id>>, w |-> a.w]
  IN Made(addNode(Tick(w),
            [node_id |-> uuidv4(w), type |-> "hypothesis",
             confidence |-> Flat(300), tags |-> {"general"}, bias_flags |-> {},
             history |-> <<"Fail-safe hypothesis created">>, history_at |-> <<DateNow>>, impact |-> 100,
             layer |-> "", timestamp |-> DateNow, power |-> NoPower, present |-> AllPresent]))

\* Stage 1: one Root node from the query
stage1_Initialization(w, c, q, res) ==
  LET Made(a) ==
        IF a.ok THEN Out(TRUE, a.w, PushNode(res, a.id), c, <<>>)
        ELSE Out(FALSE, a.w, res, c, <<"Node", "creation", "failed">>)
  IN Made(addNode(Tick(w),
            [node_id |-> uuidv4(w), type |-> "root", confidence |-> Flat(800),
             tags |-> QueryTags(q), bias_flags |-> {},
             history |-> <<"Root node initialized">>, history_at |-> <<DateNow>>, impact |-> 900,
             layer |-> "root", timestamp |-> DateNow, power |-> NoPower,
             present |-> AllPresent \cup {"layer_id"}]))

\* What a loop leaves behind: the store, the ids and warnings it pushed onto
\* the stage's result, and ok = FALSE with msg when it ended by a throw.
Done(w) ==
  [ok |-> TRUE, w |-> w, nodes |-> <<>>, edges |-> <<>>, warnings |-> <<>>,
   msg |-> <<>>]

Thrown(w, msg) ==
  [ok |-> FALSE, w |-> w, nodes |-> <<>>, edges |-> <<>>, warnings |-> <<>>,
   msg |-> msg]

\* rest, preceded by what the iteration before it pushed
Before(nodes, edges, warnings, rest) ==
  [rest EXCEPT !.nodes = nodes \o @, !.edges = edges \o @,
               !.warnings = warnings \o @]

\* the stage's outcome once its loop l is over
Finish(l, res, c) ==
  Out(l.ok, l.w,
      [res EXCEPT !.nodes_created = @ \o l.nodes, !.edges_created = @ \o l.edges,
                  !.warnings = @ \o l.warnings],
      c, l.msg)

RECURSIVE DimLoop(_, _, _, _)
\* the for-loop of stage 2 over the dimension labels; rootNode = NoId is
\* the undefined the code reads .id of
DimLoop(w, q, dims, rootNode) ==
  IF dims = <<>> THEN Done(w)
  ELSE
    LET Linked(a, e) ==
          IF ~e.ok
          THEN Before(<<a.id>>, <<>>, <<>>,
                      Thrown(e.w, <<"Edge", "creation", "failed">>))
          ELSE Before(<<a.id>>, <<e.id>>, <<>>,
                      DimLoop(e.w, q, Tail(dims), rootNode))
        Made(a) ==
          IF ~a.ok THEN Thrown(a.w, <<"Node", "creation", "failed">>)
          ELSE IF rootNode = NoId
          THEN \* edge_id: uuidv4() is evaluated, then rootNode.id throws
               Before(<<a.id>>, <<>>, <<>>, Thrown(Tick(a.w), TypeErrorUndefined))
          ELSE Linked(a, addEdge(Tick(a.w), rootNode, a.id,
                                 [edge_id |-> uuidv4(a.w),
                                  edge_type |-> "specialization"]))
    IN Made(addNode(Tick(w),
              [node_id |-> uuidv4(w), type |-> "dimension",
               confidence |-> Flat(700), tags |-> QueryTags(q),
               bias_flags |-> IF Head(dims) = "Potential Biases"
                              THEN {"bias_analysis"} ELSE {},
               history |-> <<"Dimension node created">>, history_at |-> <<DateNow>>, impact |-> 600,
               layer |-> "decomposition", timestamp |-> DateNow, power |-> NoPower,
               present |-> AllPresent \cup {"layer_id"}]))

FirstId(nodes) == IF Len(nodes) = 0 THEN NoId ELSE nodes[1].id

\* the root stage 2 links to.  `let rootNode;` is assigned only inside the
\* `rootNodes.length === 0` branch, whose last statement is
\* `rootNode = rootNodes[0]`; with a root present it is never assigned.
Stage2RootNode(rootNodes, emergencyRootId) ==
  IF Len(rootNodes) = 0 THEN FirstId(rootNodes) ELSE NoId

\* Stage 2: the 7 Dimension nodes under the Root
stage2_Decomposition(w, c, q, res) ==
  LET rootNodes == SelectSeq(w.vertices, LAMBDA n : n.type = "root")
      WithEmergencyRoot(em) ==
        Finish(DimLoop(em.w, q, Dimensions, Stage2RootNode(rootNodes, em.id)),
               Warn(PushNode(res, em.id),
                    <<"Created", "emergency", "root", "node", "for",
                      "decomposition">>),
               c)
  IN IF Len(rootNodes) = 0
     THEN WithEmergencyRoot(createBasicRootNode(w))
     ELSE Finish(DimLoop(w, q, Dimensions, Stage2RootNode(rootNodes, NoId)), res, c)

\* Math.floor(Math.random() * 3) + 3, the random number in thousandths
NumHypotheses(fs, r) == IF fs THEN 2 ELSE (r * 3) \div 1000 + 3

RECURSIVE HypLoop(_, _, _, _, _)
\* for (let i = 0; i < numHypotheses; i++): the hypotheses of one dimension
HypLoop(w, dimNode, i, n, d) ==
  IF i >= n THEN Done(w)
  ELSE
    LET Linked(a, e) ==
          IF ~e.ok
          THEN Before(<<a.id>>, <<>>,
                      <<<<"Failed", "to", "connect", "hypothesis", "to",
                          "dimension">>>>,
                      HypLoop(e.w, dimNode, i + 1, n, d))
          ELSE Before(<<a.id>>, <<e.id>>, <<>>, HypLoop(e.w, dimNode, i + 1, n, d))
        Made(a) ==
          IF ~a.ok
          THEN Before(<<>>, <<>>, <<<<"Failed", "to", "create", "hypothesis">>>>,
                      HypLoop(a.w, dimNode, i + 1, n, d))
          ELSE Linked(a, addEdge(Tick(a.w), dimNode.id, a.id,
                                 [edge_id |-> uuidv4(a.w),
                                  edge_type |-> "supportive"]))
    IN Made(addNode(Tick(w),
              [node_id |-> uuidv4(w), type |-> "hypothesis",
               confidence |-> Flat(500), tags |-> dimNode.tags,
               bias_flags |-> d.bias,
               history |-> <<"Hypothesis generated">>, history_at |-> <<DateNow>>,
               impact |-> (d.r * 800) \div 1000 + 200,
               layer |-> "", timestamp |-> DateNow, power |-> NoPower, present |-> AllPresent]))

RECURSIVE DimensionsLoop(_, _, _, _)
\* for (const dimNode of ...): every dimension node in turn
DimensionsLoop(w, dims, fs, d) ==
  IF dims = <<>> THEN Done(w)
  ELSE LET Next1(h) ==
             IF ~h.ok THEN h
             ELSE Before(h.nodes, h.edges, h.warnings,
                         DimensionsLoop(h.w, Tail(dims), fs, d))
       IN Next1(HypLoop(w, Head(dims), 0, NumHypotheses(fs, d.r), d))

\* Stage 3: hypotheses per Dimension.  The loop runs over `workingDimensions`,
\* a name the source never declares: a build either throws a ReferenceError
\* there ("literal") or resolves it to dimensionNodes ("repaired").
stage3_HypothesisPlanning(w, c, q, res, fs, d, bld) ==
  LET Plan(w1, res1) ==
        IF ~(\E i \in 1..Len(w1.vertices) : w1.vertices[i].type = "dimension")
        THEN Out(FALSE, w1, res1, c,
                 <<"Failed", "to", "create", "basic", "dimensions">>)
        ELSE IF bld = "literal"
        THEN Out(FALSE, w1, res1, c, <<"workingDimensions", "is", "not", "defined">>)
        ELSE Finish(DimensionsLoop(w1,
                      SelectSeq(w1.vertices, LAMBDA n : n.type = "dimension"),
                      fs, d),
                    res1, c)
      WithBasic(bd) ==
        Plan(bd.w, Warn(PushNodes(res, bd.ids),
                        <<"Created", "basic", "dimensions", "for", "hypothesis",
                          "generation">>))
  IN IF \E i \in 1..Len(w.vertices) : w.vertices[i].type = "dimension"
     THEN Plan(w, res)
     ELSE WithBasic(createBasicDimensions(w))

\* 40 * calculatePriorityScore = 40 * (0.6 * mean confidence + 0.4 * impact)
calculatePriorityScore40(n) ==
  6 * getAverageConfidence4(n.confidence) + 16 * n.impact

\* hypotheses.sort((a, b) => scoreB - scoreA): by descending score, entries
\* of equal score in their former order
SortByScore(nodes) ==
  LET score == [i \in 1..Len(nodes) |-> calculatePriorityScore40(nodes[i])]
      rank == [i \in 1..Len(nodes) |->
                 Cardinality({j \in 1..Len(nodes) :
                                \/ score[j] > score[i]
                                \/ score[j] = score[i] /\ j < i}) + 1]
  IN [p \in 1..Len(nodes) |-> nodes[CHOOSE i \in 1..Len(nodes) : rank[i] = p]]

\* calculateSemanticSimilarity: |tags1 & tags2| / |tags1 | tags2|, thousandths
calculateSemanticSimilarity(n1, n2) ==
  LET un == n1.tags \cup n2.tags
  IN IF un = {} THEN 0
     ELSE (1000 * Cardinality(n1.tags \cap n2.tags)) \div Cardinality(un)

calculateUpdatedConfidence(prior, ev) ==
  <<Min2(1000, (prior[1] + ev[1]) \div 2 + 100),
    Min2(1000, (prior[2] + ev[2]) \div 2 + 50),
    Min2(1000, (prior[3] + ev[3]) \div 2 + 50),
    Min2(1000, (prior[4] + ev[4]) \div 2 + 50)>>

NumEvidence(fs, r) == IF fs THEN 1 ELSE (r * 3) \div 1000 + 1

RECURSIVE EvidenceLoop(_, _, _, _, _)
\* the loop of gatherEvidence; ev: the ids of the Evidence nodes made
EvidenceLoop(w, hid, i, n, d) ==
  IF i >= n THEN Done(w) @@ [ev |-> <<>>]
  ELSE
    LET Linked(a, e) ==
          IF ~e.ok
          THEN Before(<<a.id>>, <<>>, <<>>,
                      Thrown(e.w, <<"Edge", "creation", "failed">>))
                 @@ [ev |-> <<>>]
          ELSE [Before(<<a.id>>, <<e.id>>, <<>>,
                       EvidenceLoop(e.w, hid, i + 1, n, d))
                  EXCEPT !.ev = <<a.id>> \o @]
        Made(a) ==
          IF ~a.ok
          THEN Thrown(a.w, <<"Node", "creation", "failed">>) @@ [ev |-> <<>>]
          ELSE Linked(a, addEdge(Tick(a.w), a.id, hid,
                                 [edge_id |-> uuidv4(a.w),
                                  edge_type |-> "supportive"]))
    IN Made(addNode(Tick(w),
              [node_id |-> uuidv4(w), type |-> "evidence",
               confidence |-> Flat((d.r * 600) \div 1000 + 400),
               tags |-> getNode(w, hid).tags, bias_flags |-> {},
               history |-> <<"Evidence node created">>, history_at |-> <<DateNow>>,
               impact |-> (d.r * 700) \div 1000 + 300, layer |-> "",
               timestamp |-> DateNow,
               power |-> [power |-> (d.r * 600) \div 1000 + 400,
                          sample_size |-> d.r + 100,
                          effect_size |-> 2 * d.r - 1000],
               present |-> AllPresent]))

\* gatherEvidence(hypothesis, ...)
gatherEvidence(w, hid, fs, d) == EvidenceLoop(w, hid, 0, NumEvidence(fs, d.r), d)

RECURSIVE UpdateLoop(_, _, _)
\* the Bayesian update of the hypothesis, one per Evidence node
UpdateLoop(w, hid, evs) ==
  IF evs = <<>> THEN w
  ELSE
    LET ev == getNode(w, Head(evs))
        newConfidence == calculateUpdatedConfidence(getNode(w, hid).confidence,
                                                    ev.confidence)
    IN UpdateLoop(updateNodeConfidence(w, hid, newConfidence,
                    [reliability |-> 700, statistical_power |-> ev.power]).w,
                  hid, Tail(evs))

RECURSIVE IBNLoop(_, _, _)
\* the loop of checkForIBNs, over the other Hypothesis nodes of the snapshot
IBNLoop(w, hypothesis, others) ==
  IF others = <<>> THEN Done(w)
  ELSE
    LET node == Head(others)
        Bridged(b) ==
          IF b.id # NoId
          THEN Before(<<b.id>>, <<>>, <<>>, IBNLoop(b.w, hypothesis, Tail(others)))
          ELSE IBNLoop(b.w, hypothesis, Tail(others))
    IN Bridged(createIBN(w, hypothesis.id, node.id,
                         calculateSemanticSimilarity(hypothesis, node)))

\* checkForIBNs(hypothesis, result)
checkForIBNs(w, hypothesis) ==
  IBNLoop(w, hypothesis,
          SelectSeq(w.vertices,
                    LAMBDA node : node.id # hypothesis.id /\ node.type = "hypothesis"))

\* applyTemporalDecay: empirical_support *= exp(-days / 365), floored at 0.9
\* when fail-safe is active; no revision entry is written
applyTemporalDecay(w, hid, fs, decay) ==
  LET node == getNode(w, hid)
      adjustedDecay == IF fs THEN Max2(900, decay) ELSE decay
  IN ReplaceNode(w, [node EXCEPT !.confidence[1] = (@ * adjustedDecay) \div 1000])

RECURSIVE Stage4Loop(_, _, _, _, _, _)
\* for (let i = 0; i < maxHypotheses; i++)
Stage4Loop(w, sorted, i, maxHypotheses, fs, d) ==
  IF i >= maxHypotheses THEN Done(w)
  ELSE IF i >= Len(sorted)
  THEN \* sortedHypotheses[i] is undefined: gatherEvidence throws on
       \* hypothesis.metadata, and each catch handler throws again on
       \* hypothesis.id
       Thrown(Tick(w), TypeErrorUndefined)
  ELSE
    LET hid == sorted[i + 1].id
        Checked(g, b) ==
          IF g.ok /\ b.ok
          THEN Before(g.nodes \o b.nodes, g.edges, <<>>,
                      Stage4Loop(applyTemporalDecay(b.w, hid, fs, d.decay),
                                 sorted, i + 1, maxHypotheses, fs, d))
          ELSE Before(g.nodes \o b.nodes, g.edges,
                      (IF g.ok THEN <<>>
                       ELSE <<<<"Evidence", "gathering", "failed", "for",
                                "hypothesis">>>>)
                      \o (IF b.ok THEN <<>>
                          ELSE <<<<"IBN", "check", "failed", "for",
                                   "hypothesis">>>>),
                      Stage4Loop(applyTemporalDecay(b.w, hid, fs, d.decay),
                                 sorted, i + 1, maxHypotheses, fs, d))
        Updated(g, w2) == Checked(g, checkForIBNs(w2, getNode(w2, hid)))
        Gathered(g) ==
          Updated(g, UpdateLoop(g.w, hid, IF g.ok THEN g.ev ELSE <<>>))
    IN Gathered(gatherEvidence(w, hid, fs, d))

\* Stage 4: evidence for the top hypotheses
stage4_EvidenceIntegration(w, c, q, res, fs, d) ==
  LET hypotheses == SelectSeq(w.vertices, LAMBDA n : n.type = "hypothesis")
      sortedHypotheses == SortByScore(hypotheses)
      maxHypotheses == IF fs THEN 3 ELSE Min2(10, Len(sortedHypotheses))
  IN Finish(Stage4Loop(w, sortedHypotheses, 0, maxHypotheses, fs, d), res, c)

\* nodes[j] is a partner nodes[i] is merged with when the inner loop gets to it
Mergeable(nodes, i, j, merged) ==
  /\ nodes[j].id \notin merged
  /\ calculateSemanticSimilarity(nodes[i], nodes[j]) >= 800

RECURSIVE MergeInner(_, _, _, _, _)
\* for (j = ...; j < nodes.length; j++), from one mergeable j to the next
\* (the pairs in between are skipped or fall short of 0.8); merged: mergedPairs
MergeInner(w, nodes, i, j, merged) ==
  LET js == {k \in j..Len(nodes) : Mergeable(nodes, i, k, merged)}
      jj == MinOf(js)
      Merged(m) ==
        IF m.id # NoId
        THEN Before(<<m.id>>, <<>>, <<<<"Merged", "nodes">>>>,
                    MergeInner(m.w, nodes, i, jj + 1,
                               merged \cup {nodes[i].id, nodes[jj].id}))
        ELSE MergeInner(w, nodes, i, jj + 1, merged)
  IN IF nodes[i].id \in merged \/ js = {}
     THEN Done(w) @@ [merged |-> merged]
     ELSE Merged(mergeNodes(w, nodes[i].id, nodes[jj].id,
                            calculateSemanticSimilarity(nodes[i], nodes[jj])))

RECURSIVE MergeOuter(_, _, _, _)
\* for (i = ...; i < nodes.length - 1; i++), from one row that merges to the
\* next
MergeOuter(w, nodes, i, merged) ==
  LET rows == {k \in i..(Len(nodes) - 1) :
                 /\ nodes[k].id \notin merged
                 /\ \E j \in (k + 1)..Len(nodes) : Mergeable(nodes, k, j, merged)}
      Row(r) ==
        Before(r.nodes, <<>>, r.warnings,
               MergeOuter(r.w, nodes, MinOf(rows) + 1, r.merged))
  IN IF rows = {} THEN Done(w)
     ELSE Row(MergeInner(w, nodes, MinOf(rows), MinOf(rows) + 1, merged))

\* Stage 5: prune, then merge pairs with tag overlap >= 0.8
stage5_PruningMerging(w, c, q, res, fs) ==
  LET Pruned(p) ==
        Finish(MergeOuter(p.w, p.w.vertices, 1, {}),
               Warn(res, <<"Pruned", ToString(Len(p.pruned)), "nodes">>), c)
  IN Pruned(pruneNodes(w, IF fs THEN 100 ELSE 200, IF fs THEN 50 ELSE 100))

\* the test of the edge loop with its check of the two endpoints left out
edgeOfAdmittedType(e, nodeIds, criteria) ==
  ~criteria.has_edge_types \/ e.type \in criteria.edge_types

\* the test of the edge loop: both endpoints among the filtered nodes, and
\* the type among edge_types when those are given
edgeMatches(e, nodeIds, criteria) ==
  /\ e.source \in nodeIds
  /\ e.target \in nodeIds
  /\ (~criteria.has_edge_types \/ e.type \in criteria.edge_types)

\* an extractSubgraph that never takes its emergency fallback
neverEmergency(filteredNodes, w) == FALSE

\* the test of the emergency fallback: nothing passed the filter although
\* the store holds nodes
filteringFailed(filteredNodes, w) ==
  Len(filteredNodes) = 0 /\ Len(w.vertices) > 0

\* a matchesCriteria that asks for one of the supplied criteria only
matchesAnyCriterion(node, criteria) ==
  \/ /\ criteria.confidence_threshold # 0
     /\ getAverageConfidence4(node.confidence) >= 4 * criteria.confidence_threshold
  \/ /\ criteria.node_types # {}
     /\ node.type \in criteria.node_types
  \/ /\ criteria.layer_ids # {}
     /\ node.layer # ""
     /\ node.layer \in criteria.layer_ids
  \/ /\ criteria.impact_threshold >= 0
     /\ node.impact >= criteria.impact_threshold
  \/ /\ criteria.temporal_recency_days # 0
     /\ ~(DateNow - node.timestamp > criteria.temporal_recency_days)

\* matchesCriteria: a criterion that is absent, or falsy (a threshold or a
\* recency of 0, an empty array), is not applied; an impact_threshold of -1
\* stands for undefined
matchesCriteria(node, criteria) ==
  /\ criteria.confidence_threshold # 0 =>
       getAverageConfidence4(node.confidence) >= 4 * criteria.confidence_threshold
  /\ criteria.node_types # {} => node.type \in criteria.node_types
  /\ criteria.layer_ids # {} =>
       (node.layer # "" /\ node.layer \in criteria.layer_ids)
  /\ criteria.impact_threshold >= 0 => node.impact >= criteria.impact_threshold
  /\ criteria.temporal_recency_days # 0 =>
       ~(DateNow - node.timestamp > criteria.temporal_recency_days)

\* extractSubgraph: [nodes, edges], the ids in store order. Nothing in its
\* try block throws (matchesCriteria and both loops catch their own errors),
\* so the catch that returns every node and every edge is never entered
extractSubgraph(w, criteria) ==
  LET filteredNodes == SelectSeq(w.vertices, LAMBDA n : matchesCriteria(n, criteria))
      nodeIds == {filteredNodes[i].id : i \in 1..Len(filteredNodes)}
      filteredEdges ==
        SelectSeq(w.edges, LAMBDA e : edgeMatches(e, nodeIds, criteria))
      Ids(seq) == [i \in 1..Len(seq) |-> seq[i].id]
  IN IF filteringFailed(filteredNodes, w)
     THEN [nodes |-> Ids(SubSeq(w.vertices, 1, Min2(5, Len(w.vertices)))),
           edges |-> <<>>]
     ELSE [nodes |-> Ids(filteredNodes), edges |-> Ids(filteredEdges)]

NoSubgraph == [set |-> FALSE, nodes |-> <<>>, edges |-> <<>>]

\* Stage 6: the subgraph composition works from
stage6_SubgraphExtraction(w, c, q, res, fs) ==
  LET criteria == [confidence_threshold |-> IF fs THEN 100 ELSE 300,
                   impact_threshold |-> IF fs THEN 50 ELSE 200,
                   temporal_recency_days |-> 365,
                   layer_ids |-> {},
                   node_types |-> {"hypothesis", "evidence",
                                   "interdisciplinary_bridge_node"},
                   has_edge_types |-> TRUE,
                   edge_types |-> {"supportive", "causal", "temporal_precedence"}]
      Extracted(sg2, res1) ==
        Out(TRUE, w,
            Warn(res1, <<"Extracted", "subgraph", "with", ToString(Len(sg2.nodes)),
                         "nodes">>),
            [c EXCEPT !.extracted_subgraph =
               [set |-> TRUE, nodes |-> sg2.nodes, edges |-> sg2.edges]],
            <<>>)
      Selected(sg) ==
        IF Len(sg.nodes) = 0 /\ Len(w.vertices) > 0
        THEN Extracted(
               [nodes |-> [i \in 1..Min2(10, Len(w.vertices)) |-> w.vertices[i].id],
                edges |-> <<>>],
               Warn(res, <<"Used", "emergency", "fallback", "selected",
                           "first", "10", "available", "nodes">>))
        ELSE Extracted(sg, res)
  IN Selected(extractSubgraph(w, criteria))

\* Stage 7: the narrative; generateNarrative reads user_profile.research_focus
\* and throws on a null profile, which the stage catches
stage7_Composition(w, c, q, res) ==
  IF ~c.extracted_subgraph.set
  THEN Out(TRUE, w,
           Warn(res, <<"No", "subgraph", "available", "creating", "basic",
                       "narrative">>),
           [c EXCEPT !.final_narrative = "basic"], <<>>)
  ELSE IF c.user_profile = "null"
  THEN Out(TRUE, w,
           Warn(Warn(res, <<"Narrative", "generation", "failed">>),
                <<"Used", "fallback", "basic", "narrative", "generation">>),
           [c EXCEPT !.final_narrative = "basic"], <<>>)
  ELSE Out(TRUE, w, Warn(res, <<"Generated", "narrative">>),
           [c EXCEPT !.final_narrative = "full"], <<>>)

\* calculateOverallQuality, thousandths
calculateOverallQuality(w, c) ==
  LET successfulStages ==
        Cardinality({i \in 1..Len(c.stage_results) : c.stage_results[i].success})
      baseScore == (successfulStages * 1000) \div 8
      complexityBonus == Min2(200, getNodeCount(w) * 20)
      failSafePenalty == IF c.fail_safe_active THEN 100 ELSE 0
  IN Max2(0, Min2(1000, baseScore + complexityBonus - failSafePenalty))

\* stage 8 without its try/catch blocks, the audit throwing
stage8_Unguarded(w, c, q, res) == Out(FALSE, w, res, c, <<"Audit", "failed">>)

\* Stage 8: audit and quality score
stage8_Reflection(w, c, q, res) ==
  LET critical == getNodeCount(w) < 5
      res1 == IF critical
              THEN Warn(res, <<"Audit", "found", "1", "critical", "issues">>)
              ELSE res
      qualityScore == calculateOverallQuality(w, c)
  IN Out(TRUE, w,
         Warn(res1, <<"Overall", "quality", "score", ToString(qualityScore)>>),
         [c EXCEPT !.audit_results = IF critical THEN "critical" ELSE "clean",
                   !.quality_score = qualityScore],
         <<>>)

\* executeStageLogic: a retry first clears the lists of created ids
executeStageLogic(stage, w, c, q, res0, att, fs, d, bld) ==
  LET res == IF att > 0
             THEN [res0 EXCEPT !.nodes_created = <<>>, !.edges_created = <<>>]
             ELSE res0
  IN CASE stage = 1 -> stage1_Initialization(w, c, q, res)
       [] stage = 2 -> stage2_Decomposition(w, c, q, res)
       [] stage = 3 -> stage3_HypothesisPlanning(w, c, q, res, fs, d, bld)
       [] stage = 4 -> stage4_EvidenceIntegration(w, c, q, res, fs, d)
       [] stage = 5 -> stage5_PruningMerging(w, c, q, res, fs)
       [] stage = 6 -> stage6_SubgraphExtraction(w, c, q, res, fs)
       [] stage = 7 -> stage7_Composition(w, c, q, res)
       [] stage = 8 -> stage8_Reflection(w, c, q, res)
       [] OTHER -> Out(FALSE, w, res, c, <<"Invalid", "stage">>)

\* createFailSafeOutput with phase 6 skipped like phase 4
createFailSafeOutputSkipping6(stage, w, c, res) ==
  Out(TRUE, w, res, c, <<>>)

\* createFailSafeOutput: minimal output for a failed stage; none of its
\* cases can throw (ok stays TRUE)
createFailSafeOutput(stage, w, c, res) ==
  CASE stage = 1 ->
         LET Made(r) == Out(TRUE, r.w, PushNode(res, r.id), c, <<>>)
         IN Made(createBasicRootNode(w))
    [] stage = 2 ->
         LET Made(r) == Out(TRUE, r.w, PushNodes(res, r.ids), c, <<>>)
         IN Made(createBasicDimensions(w))
    [] stage = 3 ->
         LET Made(r) == Out(TRUE, r.w, PushNodes(res, r.ids), c, <<>>)
         IN Made(createBasicHypotheses(w))
    [] stage = 4 -> Out(TRUE, w, res, c, <<>>)
    [] stage = 5 -> Out(TRUE, pruneNodes(w, 100, 50).w, res, c, <<>>)
    [] stage = 6 ->
         Out(TRUE, w, res,
             [c EXCEPT !.extracted_subgraph =
                [set |-> TRUE,
                 nodes |-> [i \in 1..Len(w.vertices) |-> w.vertices[i].id],
                 edges |-> <<>>]],
             <<>>)
    [] stage = 7 -> Out(TRUE, w, res, [c EXCEPT !.final_narrative = "basic"], <<>>)
    [] stage = 8 -> Out(TRUE, w, res, [c EXCEPT !.audit_results = "basic"], <<>>)
    [] OTHER -> Out(TRUE, w, res, c, <<>>)

\* ------------------------------------------------ pipeline, as a process
MaxRuns == 2          \* executeComplete calls on the one pipeline object

\* the computational_budget literal of executeComplete
DefaultBudget ==
  [max_nodes |-> BudgetMaxNodes, max_edges |-> BudgetMaxEdges,
   max_execution_time_ms |-> BudgetMaxTimeMs]

\* the budget a host declares for its run ("Set very restrictive
\* computational budget"); executeComplete has no parameter to take it
RestrictiveBudget ==
  [max_nodes |-> 5, max_edges |-> 10, max_execution_time_ms |-> 100]

\* calls of executeComplete, each with the draws made during it: a query
\* with no domain under a researcher's profile, and the empty query of the
\* resilience test (query '', domain []) under a null profile (userProfile
\* is `any`).  wanted: the budget the host has declared for the run.
\* draw: what Math.random() yields (r, in thousandths), what the
\* bias annotator returns, and exp(-age / 365 days) (decay, in thousandths)
Inputs ==
  { [query |-> [query |-> "q", hasDomain |-> FALSE, domain |-> {}],
     profile |-> "researcher", wanted |-> RestrictiveBudget,
     draw |-> [r |-> 400, bias |-> {"confirmation_bias"}, decay |-> 999]],
    [query |-> [query |-> "", hasDomain |-> TRUE, domain |-> {}],
     profile |-> "null", wanted |-> DefaultBudget,
     draw |-> [r |-> 0, bias |-> {}, decay |-> 1000]] }

NoContext ==
  [task_query |-> "", user_profile |-> "null", current_stage |-> 0,
   stage_results |-> <<>>, fail_safe_active |-> FALSE,
   extracted_subgraph |-> NoSubgraph, final_narrative |-> "none",
   audit_results |-> "none", quality_score |-> -1,
   computational_budget |-> DefaultBudget]

\* the context literal executeComplete starts from
NewContext(inp) ==
  [NoContext EXCEPT !.task_query = inp.query.query,
                    !.user_profile = inp.profile]

\* this.failSafeActive = !this.failSafeActive, the flag flipped instead of set
toggleFailSafe(c) ==
  [failSafeActive |-> ~c.fail_safe_active,
   c |-> [c EXCEPT !.fail_safe_active = ~@]]

\* activateFailSafe: sets the pipeline's flag and the context's
activateFailSafe(c) ==
  [failSafeActive |-> TRUE, c |-> [c EXCEPT !.fail_safe_active = TRUE]]

RECURSIVE SumTimes(_)
SumTimes(results) ==
  IF results = <<>> THEN 0
  ELSE Head(results).execution_time_ms + SumTimes(Tail(results))

\* the budget check without its third operand, the accumulated time
exceedsSizeBudget(w, c) ==
  \/ getNodeCount(w) > c.computational_budget.max_nodes
  \/ getEdgeCount(w) > c.computational_budget.max_edges

exceedsComputationalBudget(w, c) ==
  \/ getNodeCount(w) > c.computational_budget.max_nodes
  \/ getEdgeCount(w) > c.computational_budget.max_edges
  \/ SumTimes(c.stage_results) > c.computational_budget.max_execution_time_ms

\* context.stage_results = [result] in place of push
KeepLastResult(c, res) == [c EXCEPT !.stage_results = <<res>>]

\* the result written over the last recorded one (appended to an empty list)
PushOverLast(c, res) ==
  [c EXCEPT !.stage_results =
     IF Len(@) = 0 THEN <<res>> ELSE [@ EXCEPT ![Len(@)] = res]]

\* context.stage_results.push(result)
PushResult(c, res) == [c EXCEPT !.stage_results = Append(@, res)]

\* context.stage_results[length - 1] = retryResult
ReplaceLastResult(c, res) ==
  [c EXCEPT !.stage_results = [@ EXCEPT ![Len(@)] = res]]

\* stage += 2
SkipStage(stage) == stage + 2

\* for (...; stage++)
NextStage(stage) == stage + 1

\* the catch block without attempt++
SameAttempt(att) == att

\* attempt++
NextAttempt(att) == att + 1

\* maxRetries = this.failSafeActive ? 1 : 3
\* executeStage allowing the normal number of attempts whatever the mode
MaxRetriesIgnoringMode(fs) == MaxRetriesNormal

MaxRetries(fs) == IF fs THEN MaxRetriesFailSafe ELSE MaxRetriesNormal

\* the catch block without the inner try/catch around the fallback: a throw
\* of createFailSafeOutput leaves success false and pushes no warning
ResolveUnguarded(stage, att, res, f) ==
  IF f.ok
  THEN Warn([f.res EXCEPT !.success = TRUE],
            <<"Stage", ToString(stage), "completed", "with", "fallback",
              "output", "after", ToString(att), "attempts">>)
  ELSE [f.res EXCEPT !.success = FALSE]

\* the catch block of executeStage once attempt >= maxRetries: f is what
\* createFailSafeOutput left behind (f.ok = FALSE: it threw)
ResolveWithFallback(stage, att, res, f) ==
  IF f.ok
  THEN Warn([f.res EXCEPT !.success = TRUE],
            <<"Stage", ToString(stage), "completed", "with", "fallback",
              "output", "after", ToString(att), "attempts">>)
  ELSE Warn([f.res EXCEPT !.success = TRUE,
                          !.errors = Append(@, <<"Fallback", "creation", "failed">>)],
            <<"Stage", ToString(stage), "continued", "with", "minimal", "output",
              "due", "to", "fallback", "failure">>)

\* errors.push(`Stage N attempt K error: ...`)
PushError(res, stage, att, msg) ==
  [res EXCEPT !.errors =
     Append(@, <<"Stage", ToString(stage), "attempt", ToString(att), "error">> \o msg)]

\* the stages whose elapsed time is let exceed the budget
SlowStages == {3}

\* Date.now() - startTime: the elapsed times a stage can report
StageTimes(c) ==
  IF c.current_stage \in SlowStages THEN {1, BudgetMaxTimeMs + 1} ELSE {1}

Init ==
  /\ graph = EmptyGraph
  /\ lastOp = [op |-> "new", ok |-> TRUE, ret |-> NoId, n |-> 0]
  /\ snapshot = NoSnapshot
  /\ failSafeActive = FALSE
  /\ ctx = NoContext
  /\ pc = "idle"
  /\ attempt = 0
  /\ maxRetries = 0
  /\ result = NewResult(1)
  /\ retrying = FALSE
  /\ runs = 0
  /\ input = [query |-> [query |-> "", hasDomain |-> TRUE, domain |-> {}],
              profile |-> "null", wanted |-> DefaultBudget]
  /\ draw = [r |-> 0, bias |-> {}, decay |-> 1000]
  /\ build \in {"literal", "repaired"}

\* executeComplete is called: the context is built, stage 1 is entered
StartRun ==
  /\ pc \in {"idle", "returned"}
  /\ runs < MaxRuns
  /\ \E inp \in Inputs :
       /\ input' = [query |-> inp.query, profile |-> inp.profile,
                    wanted |-> inp.wanted]
       /\ draw' = inp.draw
       /\ ctx' = [NewContext(inp) EXCEPT !.current_stage = 1]
  /\ runs' = runs + 1
  /\ maxRetries' = MaxRetries(failSafeActive)
  /\ attempt' = 0
  /\ result' = NewResult(1)
  /\ retrying' = FALSE
  /\ pc' = "attempt"
  /\ UNCHANGED <<graph, lastOp, snapshot, failSafeActive, build>>

\* one pass of the while loop of executeStage: the stage logic runs to its
\* end (it never yields to the timer queue, so the 30 s timer cannot settle
\* the race first), then the catch block if it threw
AttemptStage ==
  /\ pc = "attempt"
  /\ \E o \in {executeStageLogic(ctx.current_stage, graph, ctx, input.query,
                                  result, attempt, failSafeActive, draw, build)} :
       LET stage == ctx.current_stage
           att == NextAttempt(attempt)
           failed == PushError(o.res, stage, att, o.msg)
       IN IF o.ok
          THEN /\ graph' = o.w
               /\ ctx' = o.c
               /\ result' = [o.res EXCEPT !.success = TRUE]
               /\ attempt' = attempt
               /\ pc' = "finish"
          ELSE IF att >= maxRetries
          THEN \E f \in {createFailSafeOutput(stage, o.w, o.c,
                                              [failed EXCEPT !.success = FALSE])} :
                 /\ graph' = f.w
                 /\ ctx' = f.c
                 /\ result' = ResolveWithFallback(stage, att, failed, f)
                 /\ attempt' = att
                 /\ pc' = "finish"
          ELSE /\ graph' = o.w
               /\ ctx' = o.c
               /\ result' = failed
               /\ attempt' = att
               /\ pc' = "backoff"
  /\ UNCHANGED <<lastOp, snapshot, failSafeActive, maxRetries, retrying, runs,
                 input, draw, build>>

\* the backoff timer (2^attempt * 100 ms) fires
Backoff ==
  /\ pc = "backoff"
  /\ pc' = "attempt"
  /\ UNCHANGED <<graph, lastOp, snapshot, failSafeActive, ctx, attempt,
                 maxRetries, result, retrying, runs, input, draw, build>>

\* executeStage(stage) is entered
EnterStage(stage, fs) ==
  /\ maxRetries' = MaxRetries(fs)
  /\ attempt' = 0
  /\ result' = NewResult(stage)
  /\ pc' = "attempt"

\* executeStage returns its result; executeComplete records it, checks the
\* budget and moves to the next stage or returns the context.  executeStage
\* catches whatever the stage logic and the fallback throw, so the catch
\* blocks of executeComplete (handleCriticalError, handlePipelineFailure)
\* have nothing to catch.
FinishStage ==
  /\ pc = "finish"
  /\ \E t \in StageTimes(ctx) :
       LET stage == ctx.current_stage
           res == [result EXCEPT !.execution_time_ms = t]
           c1 == IF retrying THEN ReplaceLastResult(ctx, res)
                 ELSE PushResult(ctx, res)
       IN IF ~res.success /\ ~failSafeActive /\ ~retrying
          THEN \* the stage is run again with fail-safe on
               LET a == activateFailSafe(c1)
               IN /\ failSafeActive' = a.failSafeActive
                  /\ ctx' = a.c
                  /\ retrying' = TRUE
                  /\ EnterStage(stage, a.failSafeActive)
          ELSE LET a == IF exceedsComputationalBudget(graph, c1)
                        THEN activateFailSafe(c1)
                        ELSE [failSafeActive |-> failSafeActive, c |-> c1]
               IN /\ failSafeActive' = a.failSafeActive
                  /\ retrying' = FALSE
                  /\ IF NextStage(stage) <= NumStages
                     THEN /\ ctx' = [a.c EXCEPT !.current_stage = NextStage(stage)]
                          /\ EnterStage(NextStage(stage), a.failSafeActive)
                     ELSE /\ ctx' = a.c
                          /\ pc' = "returned"
                          /\ UNCHANGED <<attempt, maxRetries, result>>
  /\ UNCHANGED <<graph, lastOp, snapshot, runs, input, draw, build>>

Next ==
  \/ StartRun
  \/ AttemptStage
  \/ Backoff
  \/ FinishStage

Spec == Init /\ [][Next]_vars

\* ENABLED <<AttemptStage>>_vars: the action has no guard but its position,
\* and it always moves on from it
AttemptStageEnabled == pc = "attempt"

\* The event loop runs every continuation and timer that is due: weak
\* fairness of each step of a run.  That of AttemptStage is written with
\* its enabling condition spelled out.
LiveSpec ==
  /\ Spec
  /\ WF_vars(Backoff)
  /\ WF_vars(FinishStage)
  /\ ([]<>(~AttemptStageEnabled) \/ []<><<AttemptStage>>_vars)

\* ------------------------------------------------- store, driven by a host
UserIds == {-k : k \in 1..MaxUserIds}

\* metadata a host supplies, that of a hypothesis of kind k under the id
Metadata(id, k) ==
  [node_id |-> id, type |-> "hypothesis", confidence |-> k.confidence,
   tags |-> k.tags, bias_flags |-> {}, history |-> <<"created">>, history_at |-> <<k.timestamp>>,
   impact |-> k.impact, layer |-> k.layer, timestamp |-> k.timestamp,
   power |-> NoPower,
   present |-> {"confidence", "disciplinary_tags", "bias_flags",
                "revision_history", "impact_score"}
                 \cup (IF k.layer # "" THEN {"layer_id"} ELSE {})]

\* of low confidence and impact, thirty days old and in no layer; and of
\* high confidence and impact, dated today and in a layer
NodeKinds ==
  { [confidence |-> <<50, 50, 50, 50>>, tags |-> {"bio"}, impact |-> 50,
     layer |-> "", timestamp |-> DateNow - 30],
    [confidence |-> <<800, 800, 800, 800>>, tags |-> {"med"}, impact |-> 800,
     layer |-> "layer-2", timestamp |-> DateNow] }

\* of low confidence, with an impact_score of 0 (the schema admits
\* 0 <= impact_score <= 1)
ZeroImpactKind ==
  [confidence |-> <<50, 50, 50, 50>>, tags |-> {"bio"}, impact |-> 0,
   layer |-> "", timestamp |-> DateNow]

\* metadata that satisfies NodeMetadataSchema
ValidNodeInputs ==
  {Metadata(id, k) : id \in UserIds, k \in NodeKinds}
    \cup {Metadata(-1, ZeroImpactKind)}

\* metadata without a node_id ({} as any)
NoIdInput ==
  [node_id |-> NoId, type |-> NoType, confidence |-> DefaultConfidence,
   tags |-> {}, bias_flags |-> {}, history |-> <<>>, history_at |-> <<>>, impact |-> 0,
   layer |-> "", timestamp |-> DateNow, power |-> NoPower, present |-> {}]

\* metadata that lacks nothing but its type
NoTypeInput == [Metadata(-1, ZeroImpactKind) EXCEPT !.type = NoType]

MalformedNodeInputs == {NoIdInput, NoTypeInput}

\* what the host of the store passes to addNode
NodeInputs == ValidNodeInputs \cup {NoIdInput}

EdgeInputs ==
  { [edge_id |-> -1, edge_type |-> "supportive"] }

\* ids a host can pass: its own, and any the store has returned
KnownIds == UserIds \cup NodeIds(graph)

\* the host issues at most MaxOps operations
Fits(w) == lastOp.n < MaxOps

S_addNode ==
  \E md \in NodeInputs :
    \E r \in {addNode(graph, md)} :
       /\ Fits(r.w)
       /\ graph' = r.w
       /\ lastOp' = [op |-> "addNode", ok |-> r.ok, ret |-> r.id, n |-> lastOp.n + 1]
       /\ UNCHANGED <<snapshot, pipeVars>>

S_addEdge ==
  \E s \in KnownIds, t \in KnownIds, md \in EdgeInputs :
    \E r \in {addEdge(graph, s, t, md)} :
       /\ Fits(r.w)
       /\ graph' = r.w
       /\ lastOp' = [op |-> "addEdge", ok |-> r.ok, ret |-> r.id, n |-> lastOp.n + 1]
       /\ UNCHANGED <<snapshot, pipeVars>>

S_createIBN ==
  \E s \in KnownIds, t \in KnownIds, sim \in {500, 900} :
    \E r \in {createIBN(graph, s, t, sim)} :
       /\ Fits(r.w)
       /\ graph' = r.w
       /\ lastOp' = [op |-> "createIBN", ok |-> TRUE, ret |-> r.id, n |-> lastOp.n + 1]
       /\ UNCHANGED <<snapshot, pipeVars>>

\* the thresholds a host prunes with: the defaults, and a confidence
\* threshold that the least confident node just reaches
PruneThresholds == {<<200, 100>>, <<50, 100>>}

\* the overlaps a host merges with
Overlaps == {700, 800}

S_pruneNodes ==
  \E th \in PruneThresholds :
    \E r \in {pruneNodes(graph, th[1], th[2])} :
       /\ Fits(r.w)
       /\ graph' = r.w
       /\ lastOp' = [op |-> "pruneNodes", ok |-> TRUE, ret |-> Len(r.pruned), n |-> lastOp.n + 1]
       /\ UNCHANGED <<snapshot, pipeVars>>

S_mergeNodes ==
  \E a \in KnownIds, b \in KnownIds, ov \in Overlaps :
    \E r \in {mergeNodes(graph, a, b, ov)} :
       /\ Fits(r.w)
       /\ graph' = r.w
       /\ lastOp' = [op |-> "mergeNodes", ok |-> TRUE, ret |-> r.id, n |-> lastOp.n + 1]
       /\ UNCHANGED <<snapshot, pipeVars>>

S_removeNode ==
  \E id \in KnownIds :
    /\ Fits(graph)
    /\ graph' = removeNode(graph, id)
    /\ lastOp' = [op |-> "removeNode", ok |-> TRUE, ret |-> NoId, n |-> lastOp.n + 1]
    /\ UNCHANGED <<snapshot, pipeVars>>

\* the host calls getState() and reads what the returned object shows
S_getState ==
  /\ Fits(graph)
  /\ snapshot' = [taken |-> TRUE, state |-> getState,
                  seen |-> [f \in StoreFields |-> Entries(getState[f], graph)]]
  /\ lastOp' = [op |-> "getState", ok |-> TRUE, ret |-> NoId, n |-> lastOp.n + 1]
  /\ UNCHANGED <<graph, pipeVars>>

\* the host changes the value getState() returned: snapshot.vertices.delete(id)
S_snapshotDelete ==
  /\ snapshot.taken
  /\ Fits(graph)
  /\ \E id \in NodeIds(graph) :
       graph' = [graph EXCEPT ![snapshot.state["vertices"].field] =
                                  SelectSeq2(@, {id})]
  /\ lastOp' = [op |-> "snapshot.delete", ok |-> TRUE, ret |-> NoId,
                n |-> lastOp.n + 1]
  /\ UNCHANGED <<snapshot, pipeVars>>

StoreNext ==
  \/ S_addNode
  \/ S_addEdge
  \/ S_createIBN
  \/ S_pruneNodes
  \/ S_mergeNodes
  \/ S_removeNode

StoreInit ==
  /\ Init
  /\ build = "repaired"

StoreSpec == StoreInit /\ [][StoreNext]_vars

\* a host that also inspects the store through getState()
HostNext ==
  \/ StoreNext
  \/ S_getState
  \/ S_snapshotDelete

HostSpec == StoreInit /\ [][HostNext]_vars

\* criteria that name no criterion ({})
NoCriteria ==
  [confidence_threshold |-> 0, impact_threshold |-> -1,
   temporal_recency_days |-> 0, layer_ids |-> {}, node_types |-> {},
   has_edge_types |-> FALSE, edge_types |-> {}]

\* the criteria a caller extracts with
CriteriaInputs ==
  { NoCriteria,
    [NoCriteria EXCEPT !.confidence_threshold = 300,
                       !.node_types = {"hypothesis"}],
    [NoCriteria EXCEPT !.impact_threshold = 300, !.temporal_recency_days = 7],
    [NoCriteria EXCEPT !.layer_ids = {"layer-2"}, !.has_edge_types = TRUE,
                       !.edge_types = {"causal"}] }

\* the likelihood a caller updates a node with: the vector the node already
\* has, and a high one under an id the store does not hold
Likelihoods(w, id) ==
  IF hasNode(w, id) THEN {getNode(w, id).confidence} ELSE {Flat(900)}

\* evidence of reliability 1.0 that carries no statistical power
EvidenceInputs == { [reliability |-> 1000, statistical_power |-> NoPower] }

S_updateNodeConfidence ==
  \E id \in KnownIds :
    \E lk \in Likelihoods(graph, id), ev \in EvidenceInputs :
      \E r \in {updateNodeConfidence(graph, id, lk, ev)} :
         /\ Fits(r.w)
         /\ graph' = r.w
         /\ lastOp' = [op |-> "updateNodeConfidence", ok |-> r.ok, ret |-> id,
                       n |-> lastOp.n + 1, arg |-> lk]
         /\ UNCHANGED <<snapshot, pipeVars>>

S_extractSubgraph ==
  \E criteria \in CriteriaInputs :
    \E sg \in {extractSubgraph(graph, criteria)} :
       /\ Fits(graph)
       /\ lastOp' = [op |-> "extractSubgraph", ok |-> TRUE, ret |-> Len(sg.nodes),
                     n |-> lastOp.n + 1, arg |-> criteria, out |-> sg]
       /\ UNCHANGED <<graph, snapshot, pipeVars>>

\* a host that also updates confidences and extracts subgraphs
GraphNext ==
  \/ StoreNext
  \/ S_updateNodeConfidence
  \/ S_extractSubgraph

GraphSpec == StoreInit /\ [][GraphNext]_vars

\* phase 6 of a run over the store as the host has filled it (getGraph()):
\* executeStageLogic(6, ...) in either mode
P_stage6 ==
  \E fs \in BOOLEAN :
    \E o \in {executeStageLogic(6, graph, [ctx EXCEPT !.current_stage = 6],
                                input.query, NewResult(6), 0, fs, draw, build)} :
       /\ Fits(graph)
       /\ failSafeActive' = fs
       /\ ctx' = o.c
       /\ result' = o.res
       /\ lastOp' = [op |-> "stage6", ok |-> o.ok, ret |-> NoId, n |-> lastOp.n + 1]
       /\ UNCHANGED <<graph, snapshot, pc, attempt, maxRetries, retrying, runs,
                      input, draw, build>>

\* phase 6 resolved by its fallback output: createFailSafeOutput(6, ...)
P_failSafeOutput6 ==
  \E o \in {createFailSafeOutput(6, graph, [ctx EXCEPT !.current_stage = 6],
                                 NewResult(6))} :
     /\ Fits(graph)
     /\ ctx' = o.c
     /\ result' = o.res
     /\ lastOp' = [op |-> "failSafeOutput6", ok |-> o.ok, ret |-> NoId,
                   n |-> lastOp.n + 1]
     /\ UNCHANGED <<graph, snapshot, failSafeActive, pc, attempt, maxRetries,
                    retrying, runs, input, draw, build>>

Stage6Next ==
  \/ StoreNext
  \/ P_stage6
  \/ P_failSafeOutput6

Stage6Spec == StoreInit /\ [][Stage6Next]_vars

\* ------------------------------------------- confidence arithmetic, alone
\* numbers a caller can pass where a confidence or a reliability is expected
\* (the parameters are typed number): in [0,1] and beyond it
ConfidenceInputs ==
  {Flat(0), DefaultConfidence, <<900, 100, 500, 700>>, Flat(1000), Flat(1500)}
ReliabilityInputs == {0, 500, 1000, 1500}
PowerInputs ==
  {NoPower, [power |-> 800, sample_size |-> 100, effect_size |-> 500]}
DecayInputs == {1000, 500}

ArithmeticOps == {"average", "update", "propagate", "decay"}

\* the vector the last operation returned (a new node's default before any)
Current == IF lastOp.op \in ArithmeticOps THEN lastOp.out ELSE DefaultConfidence

\* what the host holds after the call
Returned(op, c) ==
  [op |-> op, ok |-> TRUE, ret |-> NoId, n |-> lastOp.n + 1, out |-> c]

C_average ==
  \E c2 \in ConfidenceInputs :
    /\ Fits(graph)
    /\ lastOp' = Returned("average", averageConfidence(Current, c2))
    /\ UNCHANGED <<graph, snapshot, pipeVars>>

C_update ==
  \E lk \in ConfidenceInputs, r \in ReliabilityInputs, pw \in PowerInputs :
    /\ Fits(graph)
    /\ lastOp' = Returned("update",
                          updateConfidence(Current, lk,
                                           [reliability |-> r,
                                            statistical_power |-> pw]))
    /\ UNCHANGED <<graph, snapshot, pipeVars>>

C_propagate ==
  \E r \in ReliabilityInputs :
    /\ Fits(graph)
    /\ lastOp' = Returned("propagate", propagateUncertainty(Current, r))
    /\ UNCHANGED <<graph, snapshot, pipeVars>>

\* applyTemporalDecay on a node that holds the vector
C_decay ==
  \E fs \in BOOLEAN, d \in DecayInputs :
    \E a \in {addNode(EmptyGraph,
                      Metadata(-1, [confidence |-> Current, tags |-> {"bio"},
                                    impact |-> 500, layer |-> "",
                                    timestamp |-> DateNow]))} :
      /\ Fits(graph)
      /\ lastOp' = Returned("decay",
                            getNode(applyTemporalDecay(a.w, a.id, fs, d),
                                    a.id).confidence)
      /\ UNCHANGED <<graph, snapshot, pipeVars>>

ArithmeticNext ==
  \/ C_average
  \/ C_update
  \/ C_propagate
  \/ C_decay

ArithmeticSpec == StoreInit /\ [][ArithmeticNext]_vars

\* ------------------------------------------------------ ASRGoTValidator
\* The validator's two accumulators, this.validationErrors and
\* this.validationWarnings.  A snapshot's node is [id, type, ok] and its
\* edge [id, source, target, ok], ok saying whether the metadata passes the
\* schema and the semantic checks; edges are in the Map's insertion order.
\* resetValidation: both accumulators replaced by empty lists
resetValidation == [errors |-> <<>>, warnings |-> <<>>]

\* validateNodeMetadata / validateEdgeMetadata: the accumulators are reset,
\* then hold what the parse and the checks of this one item reported
validateNodeMetadata(node) ==
  [resetValidation EXCEPT
     !.errors = IF node.ok THEN <<>> ELSE <<<<"metadata", "Invalid">>>>]

validateEdgeMetadata(edge) ==
  [resetValidation EXCEPT
     !.errors = IF edge.ok THEN <<>> ELSE <<<<"edge_type", "Invalid">>>>]

PushValidationError(v, m) == [v EXCEPT !.errors = Append(@, m)]

RECURSIVE ValidateNodes(_, _, _)
\* for (const [nodeId, node] of graphState.vertices.entries())
ValidateNodes(v, nodes, i) ==
  IF i > Len(nodes) THEN v
  ELSE LET Checked(nv) ==
             IF Len(nv.errors) # 0
             THEN PushValidationError(nv, <<"Node", ToString(nodes[i].id)>> \o nv.errors[1])
             ELSE nv
       IN ValidateNodes(Checked(validateNodeMetadata(nodes[i])), nodes, i + 1)

\* the two reference checks on one edge: [v, bad], bad the increments of
\* stats.invalid_references
CheckReferences(v, edge, ids) ==
  LET Src(a) ==
        IF edge.source \notin ids
        THEN [v |-> PushValidationError(a.v, <<"Edge", ToString(edge.id), "references",
                                     "non-existent", "source", "node",
                                     ToString(edge.source)>>),
              bad |-> a.bad + 1]
        ELSE a
      Tgt(a) ==
        IF edge.target \notin ids
        THEN [v |-> PushValidationError(a.v, <<"Edge", ToString(edge.id), "references",
                                     "non-existent", "target", "node",
                                     ToString(edge.target)>>),
              bad |-> a.bad + 1]
        ELSE a
  IN Tgt(Src([v |-> v, bad |-> 0]))

RECURSIVE ValidateEdges(_, _, _, _, _)
\* for (const [edgeId, edge] of graphState.edges.entries())
ValidateEdges(v, bad, edges, ids, i) ==
  IF i > Len(edges) THEN [v |-> v, bad |-> bad]
  ELSE LET Checked(ev) ==
             IF Len(ev.errors) # 0
             THEN PushValidationError(ev, <<"Edge", ToString(edges[i].id)>> \o ev.errors[1])
             ELSE ev
           Referenced(r) == ValidateEdges(r.v, bad + r.bad, edges, ids, i + 1)
       IN Referenced(CheckReferences(Checked(validateEdgeMetadata(edges[i])),
                                     edges[i], ids))

\* validateGraphState of a snapshot that has its vertices, edges and
\* node_types maps and an empty layers map
validateGraphState(graphState) ==
  LET ids == {graphState.vertices[i].id : i \in 1..Len(graphState.vertices)}
      connectedNodes == {e.source : e \in Range(graphState.edges)}
                          \cup {e.target : e \in Range(graphState.edges)}
      orphaned == {n \in Range(graphState.vertices) :
                     n.id \notin connectedNodes /\ n.type # "root"}
      Result(r) ==
        [isValid |-> Len(r.v.errors) = 0,
         errors |-> r.v.errors,
         statistics |-> [total_nodes |-> Len(graphState.vertices),
                         total_edges |-> Len(graphState.edges),
                         orphaned_nodes |-> Cardinality(orphaned),
                         invalid_references |-> r.bad]]
  IN Result(ValidateEdges(ValidateNodes(resetValidation, graphState.vertices, 1),
                          0, graphState.edges, ids, 1))

\* snapshots a caller can pass (graphState: any): up to two nodes, the
\* second with metadata the schema rejects, and up to MaxSnapshotEdges edges
\* between the ids 1 and 2
MaxSnapshotEdges == 2
SnapshotNodes ==
  {<<>>,
   <<[id |-> 1, type |-> "root", ok |-> TRUE]>>,
   <<[id |-> 2, type |-> "hypothesis", ok |-> FALSE]>>,
   <<[id |-> 1, type |-> "root", ok |-> TRUE],
     [id |-> 2, type |-> "hypothesis", ok |-> FALSE]>>}
SnapshotEdge(k) ==
  [id : {10 + k}, source : {1, 2}, target : {1, 2}, ok : BOOLEAN]
SnapshotEdges ==
  UNION {[1..n -> UNION {SnapshotEdge(k) : k \in 1..n}] : n \in 0..MaxSnapshotEdges}
GraphStates ==
  {[vertices |-> ns, edges |-> es] :
     ns \in SnapshotNodes,
     es \in {x \in SnapshotEdges : \A k \in 1..Len(x) : x[k].id = 10 + k}}

V_validateGraphState ==
  \E graphState \in GraphStates :
    /\ Fits(graph)
    /\ lastOp' = [op |-> "validateGraphState", ok |-> TRUE, ret |-> NoId,
                  n |-> lastOp.n + 1, arg |-> graphState,
                  out |-> validateGraphState(graphState)]
    /\ UNCHANGED <<graph, snapshot, pipeVars>>

ValidatorNext == V_validateGraphState

ValidatorSpec == StoreInit /\ [][ValidatorNext]_vars

\* ---------------------------------------------------------------- claims
HasFallbackWarning(res) ==
  \E k \in 1..Len(res.warnings) : "fallback" \in Range(res.warnings[k])

RunStarts == pc = "attempt" /\ ctx.current_stage = 1 /\ attempt = 0

InExecuteStage == pc \in {"attempt", "backoff", "finish"}

C3_StrictPhaseOrder ==
  /\ [](InExecuteStage =>
          /\ ctx.current_stage \in 1..NumStages
          /\ Len(ctx.stage_results) = ctx.current_stage - 1
          /\ \A i \in 1..Len(ctx.stage_results) :
               ctx.stage_results[i].stage = i /\ ctx.stage_results[i].success)
  /\ [][(runs' = runs /\ ctx'.current_stage # ctx.current_stage) =>
          /\ ctx'.current_stage = ctx.current_stage + 1
          /\ Len(ctx'.stage_results) = ctx.current_stage
          /\ ctx'.stage_results[ctx.current_stage].stage = ctx.current_stage
          /\ ctx'.stage_results[ctx.current_stage].success]_vars

\* phase 3 is under way after phase 2 was resolved by its fallback
C3_Witness ==
  /\ pc = "attempt"
  /\ ctx.current_stage = 3
  /\ Len(ctx.stage_results[2].errors) = MaxRetriesNormal
  /\ ctx.stage_results[2].success

\* the last attempt of a stage that has used up the normal retries
LastAttempt ==
  /\ pc = "attempt"
  /\ maxRetries = MaxRetriesNormal
  /\ NextAttempt(attempt) >= maxRetries

\* the result after the catch block has logged the failed attempt o
Failed(o) == PushError(o.res, ctx.current_stage, NextAttempt(attempt), o.msg)

\* what the catch block then makes of it when createFailSafeOutput returns f
\* (threw = FALSE) and when it throws
ResolvedAfter(o, f, threw) ==
  ResolveWithFallback(ctx.current_stage, NextAttempt(attempt), Failed(o),
                      [f EXCEPT !.ok = ~threw])

\* C4: a phase whose 3 attempts all failed is resolved with success = true
\* and a warning that contains "fallback", both when the fallback generator
\* returns and when it throws.
C4_FallbackResolvesAsSuccess ==
  /\ \A i \in 1..Len(ctx.stage_results) :
       Len(ctx.stage_results[i].errors) >= MaxRetriesNormal =>
         ctx.stage_results[i].success /\ HasFallbackWarning(ctx.stage_results[i])
  /\ (pc = "finish" /\ Len(result.errors) >= MaxRetriesNormal) =>
       result.success /\ HasFallbackWarning(result)
  /\ LastAttempt =>
       \A o \in {executeStageLogic(ctx.current_stage, graph, ctx, input.query,
                                   result, attempt, failSafeActive, draw, build)} :
         ~o.ok =>
           \A f \in {createFailSafeOutput(ctx.current_stage, o.w, o.c,
                                          [Failed(o) EXCEPT !.success = FALSE])} :
             \A threw \in BOOLEAN :
               \A r \in {ResolvedAfter(o, f, threw)} :
                 /\ r.success
                 /\ HasFallbackWarning(r)
                 /\ Len(r.errors) >= MaxRetriesNormal

\* phase 2 was resolved by the fallback after its third failed attempt
C4_Witness ==
  /\ pc = "finish"
  /\ ctx.current_stage = 2
  /\ attempt = MaxRetriesNormal
  /\ Len(result.errors) = MaxRetriesNormal
  /\ result.success

\* C5: whenever a phase's primary attempts failed, fail_safe_active is true
\* by the time the next phase starts.
C5_FailureActivatesFailSafe ==
  (/\ pc = "attempt" /\ attempt = 0
   /\ ctx.current_stage > 1
   /\ Len(ctx.stage_results) = ctx.current_stage - 1
   /\ ctx.stage_results[ctx.current_stage - 1].errors # <<>>)
  => (ctx.fail_safe_active /\ failSafeActive)

\* C6: within one run fail_safe_active, once true, stays true, in the
\* context and in the pipeline alike.
C6_FailSafeIsSticky ==
  [][(runs' = runs) =>
       /\ (ctx.fail_safe_active => ctx'.fail_safe_active)
       /\ (failSafeActive => failSafeActive')]_vars

\* fail-safe was switched on by the budget check after phase 3 and phase 5
\* is under way with it
C6_Witness ==
  /\ pc = "attempt"
  /\ ctx.current_stage >= 5
  /\ ctx.fail_safe_active
  /\ failSafeActive
  /\ ~exceedsComputationalBudget(graph,
        [ctx EXCEPT !.stage_results = SubSeq(@, 1, 2)])

\* C8: separate runs do not share the store or the fail-safe flag: every
\* run, a later run on the same pipeline object included, starts from an
\* empty store and with fail-safe off.
C8_RunsAreIsolated ==
  RunStarts => (/\ graph.vertices = <<>>
                /\ graph.edges = <<>>
                /\ ~failSafeActive)

\* C9: after any store operation returns, every stored edge's source and
\* target are ids of nodes currently in the store (no dangling edge).
C9_NoDanglingEdges ==
  \A i \in 1..Len(graph.edges) :
    /\ graph.edges[i].source \in NodeIds(graph)
    /\ graph.edges[i].target \in NodeIds(graph)

\* two nodes were merged and an edge of theirs now touches the merged node
C9_Witness ==
  /\ lastOp.op = "mergeNodes"
  /\ lastOp.ret # NoId
  /\ \E i \in 1..Len(graph.edges) :
       graph.edges[i].source = lastOp.ret \/ graph.edges[i].target = lastOp.ret

\* how far a run has come: stages done, then attempts made in this stage
StageSpan == 2 * MaxRetriesNormal + 3

Progress ==
  IF pc = "idle" THEN 0
  ELSE IF pc = "returned" THEN (NumStages + 1) * StageSpan
  ELSE ctx.current_stage * StageSpan
       + (IF pc = "backoff" THEN 2 * attempt
          ELSE IF pc = "attempt" THEN 2 * attempt + 1
          ELSE 2 * MaxRetriesNormal + 2)

\* C10: every run that is started returns after finitely many steps: there
\* are 8 stages, each attempted at most maxRetries times and then resolved,
\* so every step of a run takes it further along a bounded course, and the
\* run reaches its return.
C10_EveryRunTerminates ==
  /\ InExecuteStage ~> (pc = "returned")
  /\ [](attempt <= maxRetries /\ Progress <= (NumStages + 1) * StageSpan)
  /\ [][(runs' = runs) => Progress' > Progress]_vars

\* the second run on the pipeline returned after a stage used every retry
C10_Witness ==
  /\ pc = "returned"
  /\ runs > 1
  /\ \E i \in 1..Len(ctx.stage_results) :
       Len(ctx.stage_results[i].errors) >= MaxRetriesNormal

\* the run has more nodes or edges than its context's budget allows, or its
\* recorded phases have taken longer in total
OverBudget ==
  \/ Len(graph.vertices) > ctx.computational_budget.max_nodes
  \/ Len(graph.edges) > ctx.computational_budget.max_edges
  \/ SumTimes(ctx.stage_results) > ctx.computational_budget.max_execution_time_ms

\* C11: the budget is evaluated once after each completed phase.  When a
\* phase (phase 1 and every later one) starts, or the run has returned, a
\* run that is over its context's budget has fail-safe on, in the context
\* and in the pipeline; the flags change at no other step of a run than the
\* one that records a completed phase; and that step leaves the store as the
\* phase left it and records the phase's result as resolved, with the ids it
\* created, before the run moves on to the next phase or returns.
C11_BudgetCheckedAfterEachPhase ==
  /\ []((/\ OverBudget
         /\ \/ pc = "returned"
            \/ pc = "attempt" /\ attempt = 0 /\ ctx.current_stage > 1)
        => (ctx.fail_safe_active /\ failSafeActive))
  /\ [][(runs' = runs /\ pc # "finish") =>
          /\ ctx'.fail_safe_active = ctx.fail_safe_active
          /\ failSafeActive' = failSafeActive]_vars
  /\ [][(runs' = runs /\ pc = "finish") =>
          /\ graph' = graph
          /\ Len(ctx'.stage_results) = ctx.current_stage
          /\ ctx'.stage_results[ctx.current_stage].success
          /\ ctx'.stage_results[ctx.current_stage].nodes_created
               = result.nodes_created
          /\ \/ pc' = "returned" /\ ctx.current_stage = NumStages
             \/ pc' = "attempt" /\ ctx'.current_stage = ctx.current_stage + 1]_vars

\* phase 3 took the first run over its time budget: phase 4 starts with
\* fail-safe on, phase 3's result recorded and the nodes it made in the store
C11_Witness ==
  /\ runs = 1
  /\ pc = "attempt" /\ attempt = 0
  /\ ctx.current_stage = 4
  /\ OverBudget
  /\ ctx.fail_safe_active /\ failSafeActive
  /\ ctx.stage_results[3].nodes_created # <<>>
  /\ Range(ctx.stage_results[3].nodes_created) \subseteq NodeIds(graph)

\* C12: a run whose host has declared a budget of max_nodes = 5, and which
\* makes more nodes than that, has fail_safe_active = true once phase 5 is
\* over.
C12_RestrictiveBudgetTrips ==
  (/\ pc \in {"attempt", "backoff", "finish", "returned"}
   /\ input.wanted.max_nodes = 5
   /\ ctx.current_stage > 5
   /\ getNodeCount(graph) > input.wanted.max_nodes)
  => ctx.fail_safe_active

\* C13: the context handed back tells the mode the run was made in: when
\* the last phase of a returned run was executed with the single-attempt
\* retry budget of fail-safe mode, the context's fail_safe_active is true.
C13_FlagAgreesWithMode ==
  (pc = "returned" /\ maxRetries = MaxRetriesFailSafe) => ctx.fail_safe_active

\* C14: what getState() returns is a copy.  A snapshot keeps showing the
\* entries it showed when it was taken, whatever the store does afterwards,
\* and a host that changes the returned value leaves the store as it was.
C14_SnapshotIsDefensiveCopy ==
  /\ [](snapshot.taken =>
          \A f \in StoreFields :
            Entries(snapshot.state[f], graph) = snapshot.seen[f])
  /\ [][lastOp'.op = "snapshot.delete" => graph' = graph]_vars

\* the ids a host can name that no node of the store has
MissingIds == KnownIds \ NodeIds(graph)

\* C15: addEdge with a source or a target that is not in the store fails,
\* whatever the other arguments, and leaves the store (its edge count
\* included) as it was; so a call that stored an edge named two nodes of the
\* store.
C15_MissingEndpointRejected ==
  /\ [](\A s \in KnownIds, t \in KnownIds, md \in EdgeInputs :
          (s \in MissingIds \/ t \in MissingIds) =>
            \A r \in {addEdge(graph, s, t, md)} :
              /\ ~r.ok
              /\ getEdgeCount(r.w) = getEdgeCount(graph)
              /\ r.w = graph)
  /\ [][lastOp'.op = "addEdge" =>
          IF lastOp'.ok
          THEN /\ getEdgeCount(graph') = getEdgeCount(graph) + 1
               /\ graph'.edges[Len(graph'.edges)].source \in NodeIds(graph)
               /\ graph'.edges[Len(graph'.edges)].target \in NodeIds(graph)
          ELSE graph' = graph]_vars

\* an addEdge naming a missing node failed on a store that holds an edge
C15_Witness ==
  /\ lastOp.op = "addEdge"
  /\ ~lastOp.ok
  /\ getEdgeCount(graph) > 0
  /\ MissingIds # {}

\* s is t with one more entry at its end
ExtendsByOne(s, t) == Len(s) = Len(t) + 1 /\ SubSeq(s, 1, Len(t)) = t

C17_MissingIdOrTypeRejected ==
  \A md \in NodeInputs \cup MalformedNodeInputs :
    (md.node_id = NoId \/ md.type = NoType) =>
      \A r \in {addNode(graph, md)} : ~r.ok /\ r.w = graph

\* C18: for metadata m the schema admits, addNode(m) returns an id under
\* which getNode finds m's fields, and the store holds one node more.
C18_AddThenGetReturnsMetadata ==
  /\ \A md \in ValidNodeInputs :
       \A r \in {addNode(graph, md)} :
         /\ r.ok
         /\ getNodeCount(r.w) = getNodeCount(graph) + 1
         /\ r.id \in NodeIds(r.w)
         /\ \A n \in {getNode(r.w, r.id)} :
              /\ n.type = md.type
              /\ n.confidence = md.confidence
              /\ n.tags = md.tags
              /\ n.bias_flags = md.bias_flags
              /\ n.history = md.history
              /\ n.impact = md.impact
  /\ (lastOp.op = "addNode" /\ lastOp.ok /\ lastOp.ret < 0) =>
       \E md \in ValidNodeInputs : getNode(graph, lastOp.ret).impact = md.impact

\* C19: pruneNodes(c, i) removes exactly the nodes whose mean confidence is
\* below c and whose impact score is below i as well; every other node stays,
\* unchanged and in its place, and the ids returned are those removed.
C19_PrunesIffBothBelow ==
  \A th \in PruneThresholds :
    \A r \in {pruneNodes(graph, th[1], th[2])} :
      /\ \A n \in Range(graph.vertices) :
           (n.id \notin NodeIds(r.w)) <=>
             (/\ n.confidence[1] + n.confidence[2] + n.confidence[3]
                   + n.confidence[4] < 4 * th[1]
              /\ n.impact < th[2])
      /\ r.w.vertices = SelectSeq(graph.vertices, LAMBDA n : n.id \in NodeIds(r.w))
      /\ Range(r.pruned) = NodeIds(graph) \ NodeIds(r.w)

\* a pruning removed a node and kept one of low confidence whose impact is
\* not below the threshold
C19_Witness ==
  /\ lastOp.op = "pruneNodes"
  /\ lastOp.ret > 0
  /\ \E n \in Range(graph.vertices) :
       /\ \A th \in PruneThresholds : n.confidence[1] < th[1] => n.impact >= th[2]
       /\ \E th \in PruneThresholds : n.confidence[1] < th[1]

\* C20, as stated: for any two ids and overlap, mergeNodes leaves the store
\* as it is when overlap < 0.8, and otherwise leaves one node fewer, the
\* created node carrying the union of the tags of the two.
C20_MergeShrinksByOne ==
  \A a \in KnownIds, b \in KnownIds, ov \in Overlaps :
    \A r \in {mergeNodes(graph, a, b, ov)} :
      IF ov < 800
      THEN r.id = NoId /\ r.w = graph
      ELSE /\ getNodeCount(r.w) = getNodeCount(graph) - 1
           /\ r.id \in NodeIds(r.w)

\* C20, for two different nodes of the store: mergeNodes is a no-op when
\* overlap < 0.8; when overlap >= 0.8 both nodes are removed and one node is
\* created, under a new id and with the union of their tags, so the store
\* holds one node fewer.  With overlap >= 0.8 it is a no-op as well when one
\* of the ids is not in the store, and merging a node with itself replaces
\* it by one new node (the count stays).
C20_MergeOfTwoStoredNodes ==
  \A a \in KnownIds, b \in KnownIds, ov \in Overlaps :
    \A r \in {mergeNodes(graph, a, b, ov)} :
      IF ov < 800 \/ a \notin NodeIds(graph) \/ b \notin NodeIds(graph)
      THEN r.id = NoId /\ r.w = graph
      ELSE /\ r.id \notin NodeIds(graph) \cup {NoId}
           /\ NodeIds(r.w) = (NodeIds(graph) \ {a, b}) \cup {r.id}
           /\ getNodeCount(r.w) = getNodeCount(graph) - (IF a = b THEN 0 ELSE 1)
           /\ \A n \in {getNode(r.w, r.id)}, na \in {getNode(graph, a)},
                 nb \in {getNode(graph, b)} :
                n.tags = na.tags \cup nb.tags

\* two nodes with different tags were merged into the one node of the store
C20_Witness ==
  /\ lastOp.op = "mergeNodes"
  /\ lastOp.ret # NoId
  /\ getNodeCount(graph) = 1
  /\ getNode(graph, lastOp.ret).tags = {"bio", "med"}

\* C21: a merge loses no edge: every edge that touched one of the two
\* originals is still stored afterwards under its id, each endpoint that
\* was an original now being the merged node (checked for two distinct
\* stored originals)
C21_MergeKeepsEveryEdge ==
  \A a \in KnownIds, b \in KnownIds, ov \in Overlaps :
    \A r \in {mergeNodes(graph, a, b, ov)} :
      (a # b /\ r.id # NoId) =>
        \A i \in 1..Len(graph.edges) :
          LET e == graph.edges[i]
              Moved(x) == IF x \in {a, b} THEN r.id ELSE x
          IN (e.source \in {a, b} \/ e.target \in {a, b}) =>
               \E j \in 1..Len(r.w.edges) :
                  /\ r.w.edges[j].id = e.id
                  /\ r.w.edges[j].source = Moved(e.source)
                  /\ r.w.edges[j].target = Moved(e.target)

\* the extraction the host made last: its criteria and what it returned
Extracted == lastOp.op = "extractSubgraph"

\* the stored edge of the id
getEdge(w, id) == CHOOSE e \in Range(w.edges) : e.id = id

\* C22: every edge extractSubgraph returns has its source and its target
\* among the nodes it returns, whatever the criteria and the store
C22_EdgesStayInsideSubgraph ==
  Extracted =>
    \A k \in 1..Len(lastOp.out.edges) :
      /\ lastOp.out.edges[k] \in EdgeIds(graph)
      /\ getEdge(graph, lastOp.out.edges[k]).source \in Range(lastOp.out.nodes)
      /\ getEdge(graph, lastOp.out.edges[k]).target \in Range(lastOp.out.nodes)

\* an extraction that left out a stored edge of an admitted type because
\* one of its ends is not among the returned nodes
C22_Witness ==
  /\ Extracted
  /\ lastOp.out.nodes # <<>>
  /\ \E e \in Range(graph.edges) :
        /\ e.id \notin Range(lastOp.out.edges)
        /\ ~lastOp.arg.has_edge_types
        /\ e.target \in Range(lastOp.out.nodes)
        /\ e.source \notin Range(lastOp.out.nodes)

\* the criteria as their words read: each criterion that is supplied holds
\* of the node
Satisfies(node, criteria) ==
  /\ criteria.confidence_threshold # 0 =>
       node.confidence[1] + node.confidence[2] + node.confidence[3]
         + node.confidence[4] >= 4 * criteria.confidence_threshold
  /\ criteria.node_types # {} => node.type \in criteria.node_types
  /\ criteria.layer_ids # {} => node.layer \in criteria.layer_ids
  /\ criteria.impact_threshold >= 0 => node.impact >= criteria.impact_threshold
  /\ criteria.temporal_recency_days # 0 =>
       DateNow - node.timestamp <= criteria.temporal_recency_days

\* C23: extractSubgraph returns no node only when the store holds none; when
\* no stored node satisfies the criteria it returns the first (at most five)
\* stored nodes instead
C23_EmptyOnlyWhenStoreEmpty ==
  Extracted =>
    /\ lastOp.out.nodes = <<>> => graph.vertices = <<>>
    /\ (\A i \in 1..Len(graph.vertices) : ~Satisfies(graph.vertices[i], lastOp.arg))
         => /\ Len(lastOp.out.nodes) = Min2(5, Len(graph.vertices))
            /\ \A i \in 1..Len(lastOp.out.nodes) :
                  lastOp.out.nodes[i] = graph.vertices[i].id

\* an extraction from a store with nodes of which none satisfies the criteria
C23_Witness ==
  /\ Extracted
  /\ graph.vertices # <<>>
  /\ \A i \in 1..Len(graph.vertices) : ~Satisfies(graph.vertices[i], lastOp.arg)
  /\ lastOp.out.nodes # <<>>

C25_UpdateOfAbsentIdIsRefused ==
  /\ \A id \in KnownIds \ NodeIds(graph) :
       \A lk \in Likelihoods(graph, id), ev \in EvidenceInputs :
         \A r \in {updateNodeConfidence(graph, id, lk, ev)} :
            ~r.ok /\ r.w = graph
  /\ (lastOp.op = "updateNodeConfidence" /\ ~hasNode(graph, lastOp.ret))
       => ~lastOp.ok

\* the host has updated an id that a store with nodes does not hold
C25_Witness ==
  /\ lastOp.op = "updateNodeConfidence"
  /\ ~hasNode(graph, lastOp.ret)
  /\ ~lastOp.ok
  /\ graph.vertices # <<>>

\* C26: a stored node's confidence changes only together with a newly
\* appended revision-history entry. Stated of applyTemporalDecay, which
\* stage 4 applies to each hypothesis it has processed: whenever it changes
\* the hypothesis's confidence, the hypothesis's history has grown
C26_ConfidenceChangeIsRecorded ==
  (pc = "attempt" /\ ctx.current_stage = 4) =>
    \A i \in 1..Len(graph.vertices) :
      graph.vertices[i].type = "hypothesis" =>
        \A w2 \in {applyTemporalDecay(graph, graph.vertices[i].id,
                                      failSafeActive, draw.decay)} :
          w2.vertices[i].confidence # graph.vertices[i].confidence
            => Len(w2.vertices[i].history) > Len(graph.vertices[i].history)

\* C27: an update whose likelihood is the node's own vector, with evidence
\* of reliability 1.0, leaves the node's aggregate confidence (the mean of
\* the four dimensions) where it was, within 0.01
C27_LikelihoodEqualPriorIsNeutral ==
  (lastOp.op = "updateNodeConfidence" /\ lastOp.ok /\ hasNode(graph, lastOp.ret)) =>
    LET prior == lastOp.arg
        posterior == getNode(graph, lastOp.ret).confidence
    IN Abs(getAverageConfidence4(posterior) - getAverageConfidence4(prior)) <= 4 * 10

\* C28: for two stored nodes without a common tag and a similarity of 0.9,
\* createIBN returns the id of a new node of type
\* interdisciplinary_bridge_node whose tags are those of both nodes, and
\* stores exactly two more edges, both of type "other": one from the source
\* to the bridge and one from the bridge to the target
C28_BridgeOfDisjointNodes ==
  \A s \in NodeIds(graph), t \in NodeIds(graph) :
    getNode(graph, s).tags \cap getNode(graph, t).tags = {} =>
      \A r \in {createIBN(graph, s, t, 900)} :
        /\ r.id # NoId
        /\ r.id \notin NodeIds(graph)
        /\ NodeIds(r.w) = NodeIds(graph) \cup {r.id}
        /\ Len(r.w.vertices) = Len(graph.vertices) + 1
        /\ getNode(r.w, r.id).type = "interdisciplinary_bridge_node"
        /\ getNode(r.w, r.id).tags = getNode(graph, s).tags \cup getNode(graph, t).tags
        /\ Len(r.w.edges) = Len(graph.edges) + 2
        /\ SubSeq(r.w.edges, 1, Len(graph.edges)) = graph.edges
        /\ \A k \in (Len(graph.edges) + 1)..Len(r.w.edges) :
              r.w.edges[k].type = "other"
        /\ \E k \in (Len(graph.edges) + 1)..Len(r.w.edges) :
              r.w.edges[k].source = s /\ r.w.edges[k].target = r.id
        /\ \E k \in (Len(graph.edges) + 1)..Len(r.w.edges) :
              r.w.edges[k].source = r.id /\ r.w.edges[k].target = t

\* the host has bridged two stored nodes without a common tag
C28_Witness ==
  /\ lastOp.op = "createIBN"
  /\ lastOp.ret # NoId
  /\ hasNode(graph, lastOp.ret)
  /\ getNode(graph, lastOp.ret).type = "interdisciplinary_bridge_node"
  /\ Cardinality({k \in 1..Len(graph.edges) :
                    graph.edges[k].source = lastOp.ret
                      \/ graph.edges[k].target = lastOp.ret}) = 2

\* the errors executeStage logged for failed attempts of the stage logic
AttemptErrors(res) ==
  {k \in 1..Len(res.errors) :
     Len(res.errors[k]) >= 3 /\ res.errors[k][1] = "Stage"
       /\ res.errors[k][3] = "attempt"}

\* the warnings executeStage adds after it has called createFailSafeOutput
FallbackResolutions(res) ==
  {k \in 1..Len(res.warnings) :
     Len(res.warnings[k]) >= 3 /\ res.warnings[k][1] = "Stage"
       /\ res.warnings[k][3] \in {"completed", "continued"}}

\* C30: the logic of a phase is attempted at most 3 times in normal mode and
\* at most once in fail-safe mode; createFailSafeOutput is called once, after
\* the last allowed attempt has failed, and not otherwise
C30_BoundedAttemptsOneFallback ==
  /\ InExecuteStage =>
       /\ maxRetries = (IF failSafeActive THEN 1 ELSE 3)
       /\ attempt <= maxRetries
       /\ Cardinality(AttemptErrors(result)) = attempt
       /\ pc = "attempt" => attempt < maxRetries
       /\ pc = "backoff" => attempt > 0 /\ attempt < maxRetries
       /\ Cardinality(FallbackResolutions(result)) =
            (IF pc = "finish" /\ attempt = maxRetries THEN 1 ELSE 0)
       /\ (pc = "finish" /\ attempt < maxRetries) =>
            Cardinality(AttemptErrors(result)) < maxRetries
  /\ \A i \in 1..Len(ctx.stage_results) :
       /\ Cardinality(AttemptErrors(ctx.stage_results[i])) <= 3
       /\ Cardinality(FallbackResolutions(ctx.stage_results[i])) <= 1
       /\ Cardinality(FallbackResolutions(ctx.stage_results[i])) = 1
            => Cardinality(AttemptErrors(ctx.stage_results[i])) \in {1, 3}

\* a phase run in fail-safe mode was resolved by the fallback after its one
\* attempt
C30_Witness ==
  /\ pc = "finish"
  /\ failSafeActive
  /\ maxRetries = 1
  /\ attempt = 1
  /\ Cardinality(AttemptErrors(result)) = 1
  /\ Cardinality(FallbackResolutions(result)) = 1

\* C31: no node is left unaccounted when a phase resolves. Stated for the
\* nodes the phase itself has listed: a node that an earlier attempt of the
\* phase created and listed in nodes_created, and that is still stored when
\* the phase resolves, is listed in the resolved result's nodes_created
C31_NoUnlistedResidue ==
  [][(pc = "attempt" /\ pc' = "finish") =>
       \A id \in Range(result.nodes_created) :
          id \in NodeIds(graph') => id \in Range(result'.nodes_created)]_vars

\* C32: within a run, a StageResult that has been appended to stage_results
\* stays in its place exactly as it was appended: the list only grows at its
\* end
C32_AppendedResultsAreFrozen ==
  [][runs' = runs =>
       /\ Len(ctx'.stage_results) >= Len(ctx.stage_results)
       /\ \A i \in 1..Len(ctx.stage_results) :
             ctx'.stage_results[i] = ctx.stage_results[i]]_vars

\* a run has returned its eight results, a later phase having needed
\* retries and the fallback after earlier results were appended
C32_Witness ==
  /\ pc = "returned"
  /\ Len(ctx.stage_results) = NumStages
  /\ \E i \in 2..NumStages :
        /\ Len(ctx.stage_results[i].errors) > 0
        /\ ctx.stage_results[i - 1].nodes_created # <<>>

\* C33: when phase 2 resolves, its result lists exactly 7 Dimension nodes,
\* and each of them is the target of a specialization edge whose source is a
\* Root node
C33_SevenLinkedDimensions ==
  (pc = "finish" /\ ctx.current_stage = 2) =>
    LET dims == {id \in Range(result.nodes_created) :
                   hasNode(graph, id) /\ getNode(graph, id).type = "dimension"}
    IN /\ Cardinality(dims) = 7
       /\ \A d \in dims :
            \E e \in Range(graph.edges) :
               /\ e.target = d
               /\ e.type = "specialization"
               /\ hasNode(graph, e.source)
               /\ getNode(graph, e.source).type = "root"

\* the Hypothesis nodes in the store
Hypotheses(w) == SelectSeq(w.vertices, LAMBDA n : n.type = "hypothesis")

\* C34: with fewer Hypothesis nodes in the store than phase 4's limit (10,
\* or 3 in fail-safe mode), no attempt of phase 4's logic ends in an error
C34_FewHypothesesNoError ==
  (InExecuteStage /\ ctx.current_stage = 4
     /\ Len(Hypotheses(graph)) < (IF failSafeActive THEN 3 ELSE 10)) =>
    /\ attempt = 0
    /\ result.errors = <<>>

\* C35: once phase 6 has resolved, by its logic or by its fallback output,
\* the subgraph handed to composition holds at least one node whenever the
\* store holds at least one
C35_SubgraphNeverEmpty ==
  /\ (pc = "finish" /\ ctx.current_stage = 6 /\ Len(graph.vertices) > 0) =>
       Len(ctx.extracted_subgraph.nodes) > 0
  /\ (lastOp.op \in {"stage6", "failSafeOutput6"} /\ Len(graph.vertices) > 0) =>
       /\ ctx.extracted_subgraph.set
       /\ Len(ctx.extracted_subgraph.nodes) > 0

\* phase 6 resolved over a store none of whose nodes meets its criteria
C35_Witness ==
  /\ lastOp.op \in {"stage6", "failSafeOutput6"}
  /\ Len(graph.vertices) > 0
  /\ \A i \in 1..Len(graph.vertices) : graph.vertices[i].confidence[1] < 100
  /\ Len(ctx.extracted_subgraph.nodes) = Len(graph.vertices)

\* C36: every stored node's revision history is dated in non-decreasing
\* order and holds no entry dated before the node's own timestamp
C36_HistoryOrderedAfterCreation ==
  \A i \in 1..Len(graph.vertices) :
    \A at \in {graph.vertices[i].history_at} :
      /\ \A j \in 1..Len(at) : at[j] >= graph.vertices[i].timestamp
      /\ \A j \in 1..Len(at), k \in 1..Len(at) : j < k => at[j] <= at[k]

\* C37: the secondary maps have exactly the node map's key set, and every
\* id listed under a layer is the id of a stored node
C37_IndexesAgreeWithNodes ==
  /\ graph.node_types = NodeIds(graph)
  /\ graph.confidence_function = NodeIds(graph)
  /\ graph.metadata_function = NodeIds(graph)
  /\ \A i \in 1..Len(graph.layers) :
        Range(graph.layers[i].ids) \subseteq NodeIds(graph)

\* a removal has emptied a layer's list while other nodes stay stored
C37_Witness ==
  /\ lastOp.op \in {"removeNode", "mergeNodes", "pruneNodes"}
  /\ Len(graph.vertices) > 0
  /\ \E i \in 1..Len(graph.layers) : graph.layers[i].ids = <<>>

\* C38: whatever numbers it is given, every confidence-arithmetic operation
\* returns a vector whose four dimensions lie in [0,1]
C38_ArithmeticStaysInUnitInterval ==
  lastOp.op \in ArithmeticOps =>
    \A i \in 1..4 : lastOp.out[i] >= 0 /\ lastOp.out[i] <= 1000

\* an edge of the snapshot whose source or target is not one of its nodes
Dangling(graphState) ==
  {e \in Range(graphState.edges) :
     \E x \in {e.source, e.target} :
       \A i \in 1..Len(graphState.vertices) : graphState.vertices[i].id # x}

\* C39: a snapshot with an edge whose source or target is not one of its
\* nodes is reported invalid, with a reference error naming such an edge
C39_DanglingEdgeIsReported ==
  (lastOp.op = "validateGraphState" /\ Dangling(lastOp.arg) # {}) =>
    /\ ~lastOp.out.isValid
    /\ \E e \in Dangling(lastOp.arg) :
         \E k \in 1..Len(lastOp.out.errors) :
           /\ Len(lastOp.out.errors[k]) = 7
           /\ lastOp.out.errors[k][2] = ToString(e.id)
           /\ lastOp.out.errors[k][3] = "references"

\* the phases of the run recorded as successful
SuccessfulPhases(c) ==
  Cardinality({i \in 1..Len(c.stage_results) : c.stage_results[i].success})

\* C40: the quality score of a returned run is successfulPhases/8 +
\* min(0.2, nodeCount/50) - 0.1 if degraded, clamped to [0,1], with
\* successfulPhases counted over the run's phases, the eighth included
C40_QualityCountsAllPhases ==
  (pc = "returned" /\ Len(ctx.stage_results) = NumStages) =>
    ctx.quality_score =
      Max2(0, Min2(1000,
                   (SuccessfulPhases(ctx) * 1000) \div 8
                     + Min2(200, Len(graph.vertices) * 20)
                     - (IF ctx.fail_safe_active THEN 100 ELSE 0)))

====
